---- MODULE Spec2Model ----
(***************************************************************************)
(* Hybrid retrieval engine of the AI-engineer course repository: the       *)
(* Reciprocal Rank Fusion fuser, the paragraph chunkers, the batched       *)
(* reranker, the diversity-capped vector search, the ingestion pipeline    *)
(* over the chunks table with its batch loop, the hybrid query with        *)
(* provenance, the documents table and the chunkers that number their      *)
(* chunks, the chat query chain from the stream to the search service,     *)
(* the per-candidate and the ranking rerankers, the timezone tools, the    *)
(* SQL hybrid function, the fixed-size window chunkers and the batch over  *)
(* one connection.  Each component is a state machine with its own         *)
(* specification; the variables of the components that a specification     *)
(* does not run stay at their idle values.                                 *)
(***************************************************************************)
EXTENDS Integers, Sequences, FiniteSets, TLC

VARIABLES
    \* ---- fuser (reciprocal_rank_fusion) ----
    rankings,        \* the argument: a sequence of ranked id lists
    fpc,             \* position in the function: "loop", "done" ("off" when idle)
    li,              \* index of the ranking the outer loop is at
    pos,             \* 1-based rank the inner loop is at (enumerate(..., start=1))
    scores,          \* the dict, in insertion order: a sequence of [id, score]
    combined,        \* the returned list of (id, score)
    \* ---- paragraph chunker (chunk_text, chunk_by_tokens) ----
    chunker,         \* which function runs: "chunk_text" or "chunk_by_tokens"
    paragraphs,      \* text.split("\n\n"): token count of each stripped paragraph, 0 = blank
    cpc,             \* "loop", "done" ("off" when idle)
    pi,              \* index of the paragraph the loop is at
    chunks,          \* emitted chunks: sequence of [paras, tokens]
    current_chunk,   \* the buffer: indices of the paragraphs joined in it
    current_tokens,  \* the buffer's running token count
    \* ---- batched reranker (rerank_with_llm_batch) ----
    documents,       \* candidates in pre-rerank order
    top_n,
    reply,           \* response.output_parsed.scores
    rpc,             \* "call", "scored", "done", "raised" ("off" when idle)
    reranked,        \* the returned list
    \* ---- diverse search (search_diverse) ----
    corpus,          \* chunk id -> [doc, distance]
    per_document,
    limit,
    rank_in_doc,     \* ROW_NUMBER() OVER (PARTITION BY document_id ORDER BY distance)
    dpc,             \* "ranked", "selected", "done" ("off" when idle)
    diverse,         \* the returned rows (chunk ids in result order)
    \* ---- ingestion (ingest_document) over the chunks table ----
    variant,         \* which ingest_document runs: "replace" (delete, then insert) or "append"
    files,           \* source -> chunk_text(parse_document(source)) of the file as it is now
    table,           \* committed rows of the chunks table: [id, source, content]
    nextId,          \* the identity column's next value
    started,         \* number of ingest_document calls made so far
    ipc,             \* per caller: position in ingest_document
    source,          \* per caller: the source argument
    work,            \* per caller: the chunks of the call
    snap,            \* per caller: ids of the rows its DELETE statement saw
    txDel,           \* per caller: ids of rows its open transaction deleted
    txIns,           \* per caller: rows its open transaction inserted
    before,          \* per caller: the table when the call started
    cause,           \* per caller: what made the call raise
    log,             \* the last two returned calls, in order: [source, chunks, ret, rows]
    \* ---- batch ingestion (ingest_directory) ----
    discovered,      \* the files found in the directory, in the order of the loop
    bi,              \* index of the file the loop is at
    stats,           \* the running summary (stats, or total_chunks alone)
    attempts,        \* what happened to each file tried: [source, raised, ret]
    summary,         \* the value returned: the stats, or <<>> for None
    bpc,             \* "loop", "done", "raised" ("off" when idle)
    batch_fn,        \* which ingest_directory runs ("off" when idle)
    \* ---- hybrid query (hybrid_search_with_provenance, search_hybrid) ----
    hybrid_fn,       \* which function runs
    vector_order,    \* the vector index's full answer: chunk ids by ascending distance
    keyword_order,   \* the lexical index's full answer: matching ids by descending rank
    qlimit,          \* the limit argument
    candidates,      \* the candidates argument (0 where the function has none)
    asked_vector,    \* the limit passed to the vector search
    asked_keyword,   \* the limit passed to the keyword search
    vector_results,  \* ids the vector search returned
    keyword_results, \* ids the keyword search returned
    hscores,         \* the RRF dict, in insertion order
    results,         \* the returned list
    hpc,             \* "start", "vector", "keyword", "fused", "done" ("off" when idle)
    \* ---- documents table (index_document, insert_document) ----
    index_fn,        \* which module's functions run: "index_document" or "insert_document"
    schema,          \* "created" or "dropped": whether the two tables exist ("off" when idle)
    tx_failed,       \* the connection's transaction was aborted by the server
    next_chunk_id,   \* next value of chunks.id (SERIAL)
    doc_rows,        \* committed rows of documents: [id, source]
    chunk_rows,      \* committed rows of chunks: [id, document_id, chunk_index]
    tx_docs,         \* documents rows inserted in the connection's open transaction
    tx_chunks,       \* chunks rows inserted in the connection's open transaction
    next_doc_id,     \* next value of documents.id (SERIAL)
    xcalls,          \* number of calls made so far
    xsource,         \* the source argument of the call
    doc_id,          \* result[0] of the INSERT ... RETURNING id
    xchunks,         \* process_document(source)
    returned_ids,    \* what the calls returned, in order: [source, doc_id]
    xpc,             \* position in the call; "idle", "returned", "raised" between calls
    \* ---- chunk ordinals (chunk_fixed_size, chunk_by_paragraphs, process_document) ----
    strategy,        \* which function runs
    otext,           \* the text: characters, paragraph lengths, or the chunker's chunks
    window,          \* chunk_fixed_size: [chunk_size, overlap]
    ostart,          \* chunk_fixed_size: start; chunk_by_paragraphs: the paragraph the loop is at
    oindex,          \* index, the next chunk_index
    obuffer,         \* chunk_by_paragraphs: the paragraphs joined in current_chunk
    olen,            \* chunk_by_paragraphs: len(current_chunk)
    ochunks,         \* the chunks so far: [content, chunk_index, at], at = where it starts
    opc,             \* "loop", "done" ("off" when idle)
    \* ---- query chain (hybrid_search, search_docs, stream_response) ----
    search_fn,       \* which hybrid search runs
    kw_rows,         \* what keyword mode returns for the same query and limit
    intent,          \* classify_query(message).intent ("none" before it ran)
    failure,         \* the dependency that failed in this query: "none", "embedding", "index"
    search_out,      \* outcome of the search function: [kind, rows]
    tool_out,        \* outcome of search_docs: [kind, rows]
    sources,         \* deps.sources
    events,          \* the events stream_response yielded
    slog,            \* what the loggers recorded
    spc,             \* position in the chain, from "classify" or "search" to "streamed"
    \* ---- per-candidate reranker (rerank_with_llm of 08_reranking.py) ----
    cand_docs,       \* documents: the candidates, by id
    jtop_n,          \* top_n
    scored,          \* scored: [id, score] of the candidates judged so far
    judge_calls,     \* the candidates score_document was called for, in call order
    jreranked,       \* the returned list of [id, score]
    jpc,             \* "loop", "done", "raised" ("off" when idle)
    \* ---- timezone tools (get_current_time, convert_time) ----
    time_tool,       \* which tool runs
    time_str,        \* time_str, as its characters (<<>> for get_current_time)
    from_tz,         \* from_tz (the timezone argument of get_current_time)
    to_tz,           \* to_tz
    today,           \* the kind of day datetime.now() falls on
    tool_result,     \* the returned string, by its parts: [kind, echo, converted]
    tpc,             \* "call", "done" ("off" when idle)
    \* ---- ranking reranker (rerank_with_llm, search_and_rerank of 05_vector_search.py) ----
    rchunks,         \* chunks: the candidates' contents, told apart by number
    top_k,           \* top_k (final_k)
    judge_text,      \* the judge's reply split at the commas: [ok, n] for each part
    reranked_chunks, \* what rerank_with_llm returned
    final_results,   \* what search_and_rerank returned
    kpc,             \* "call", "replied", "reranked", "done", "raised" ("off" when idle)
    \* ---- SQL function hybrid_search, beside the Python path of the hybrid query ----
    sql_rows,        \* the rows the function returned: [id, score]
    sqpc,            \* "start", "done" ("off" when idle)
    \* ---- fixed-size windows (chunk_fixed_size, chunk_by_chars) ----
    window_fn,       \* which function runs
    wtext,           \* text, as its characters
    wargs,           \* [chunk_size, overlap]
    wstart,          \* start
    windows,         \* [start, end] of each iteration so far
    wchunks,         \* chunks
    windex,          \* index (chunk_fixed_size)
    wpc,             \* "loop", "done" ("off" when idle)
    \* ---- the connection of a batch (ingest_directory(conn, ...) of the hr agent) ----
    conn_kind,       \* "shared": one connection for the batch; "per_call": one per document
    tx_status,       \* the connection's transaction: "idle", "open", "aborted", "closed"
    inserted,        \* INSERTs done by the call in progress
    table0           \* the committed rows before the batch

fuseVars == <<rankings, fpc, li, pos, scores, combined>>
chunkVars == <<chunker, paragraphs, cpc, pi, chunks, current_chunk, current_tokens>>
rerankVars == <<documents, top_n, reply, rpc, reranked>>
diverseVars == <<corpus, per_document, limit, rank_in_doc, dpc, diverse>>
ingestVars == <<variant, files, table, nextId, started, ipc, source, work, snap,
                txDel, txIns, before, cause, log>>
dirVars == <<discovered, bi, stats, attempts, summary, bpc, batch_fn>>
hybridVars == <<hybrid_fn, vector_order, keyword_order, qlimit, candidates, asked_vector,
                asked_keyword, vector_results, keyword_results, hscores, results, hpc>>
indexVars == <<index_fn, schema, tx_failed, next_chunk_id, doc_rows, chunk_rows, tx_docs,
               tx_chunks, next_doc_id, xcalls, xsource, doc_id, xchunks, returned_ids, xpc>>
ordVars == <<strategy, otext, window, ostart, oindex, obuffer, olen, ochunks, opc>>
searchVars == <<search_fn, kw_rows, intent, failure, search_out, tool_out, sources, events,
                slog, spc>>
judgeVars == <<cand_docs, jtop_n, scored, judge_calls, jreranked, jpc>>
timeVars == <<time_tool, time_str, from_tz, to_tz, today, tool_result, tpc>>
rankingVars == <<rchunks, top_k, judge_text, reranked_chunks, final_results, kpc>>
sqlVars == <<sql_rows, sqpc>>
windowVars == <<window_fn, wtext, wargs, wstart, windows, wchunks, windex, wpc>>
connVars == <<conn_kind, tx_status, inserted, table0>>
\* The components of the retrieval core, and those around it.
coreVars == <<fuseVars, chunkVars, rerankVars, diverseVars, ingestVars, dirVars, hybridVars,
              indexVars, ordVars>>
outerVars == <<searchVars, judgeVars, timeVars, rankingVars, sqlVars, windowVars, connVars>>
vars == <<coreVars, outerVars>>

\* What a step of one component leaves alone: the other components.
exceptFuse == <<chunkVars, rerankVars, diverseVars, ingestVars, dirVars, hybridVars,
    indexVars, ordVars, outerVars>>
exceptChunk == <<fuseVars, rerankVars, diverseVars, ingestVars, dirVars, hybridVars,
    indexVars, ordVars, outerVars>>
exceptRerank == <<fuseVars, chunkVars, diverseVars, ingestVars, dirVars, hybridVars,
    indexVars, ordVars, outerVars>>
exceptDiverse == <<fuseVars, chunkVars, rerankVars, ingestVars, dirVars, hybridVars,
    indexVars, ordVars, outerVars>>
exceptIngest == <<fuseVars, chunkVars, rerankVars, diverseVars, dirVars, hybridVars,
    indexVars, ordVars, outerVars>>
exceptDir == <<fuseVars, chunkVars, rerankVars, diverseVars, hybridVars,
    indexVars, ordVars, outerVars>>
exceptHybrid == <<fuseVars, chunkVars, rerankVars, diverseVars, ingestVars, dirVars,
    indexVars, ordVars, outerVars>>
exceptIndex == <<fuseVars, chunkVars, rerankVars, diverseVars, ingestVars, dirVars,
    hybridVars, ordVars, outerVars>>
exceptText == <<fuseVars, rerankVars, diverseVars, dirVars, hybridVars, indexVars, ordVars,
    outerVars>>
exceptOrd == <<fuseVars, chunkVars, rerankVars, diverseVars, ingestVars, dirVars,
    hybridVars, indexVars, outerVars>>
exceptSearch == <<coreVars, judgeVars, timeVars, rankingVars, sqlVars, windowVars, connVars>>
exceptJudge == <<coreVars, searchVars, timeVars, rankingVars, sqlVars, windowVars, connVars>>
exceptTime == <<coreVars, searchVars, judgeVars, rankingVars, sqlVars, windowVars, connVars>>
exceptRanking == <<coreVars, searchVars, judgeVars, timeVars, sqlVars, windowVars, connVars>>
exceptSql == <<coreVars, searchVars, judgeVars, timeVars, rankingVars, windowVars, connVars>>
exceptWindow == <<coreVars, searchVars, judgeVars, timeVars, rankingVars, sqlVars, connVars>>
\* A step of the batch over a connection leaves the components other than the
\* ingestion, the batch loop and the connection alone.
exceptConn == <<fuseVars, chunkVars, rerankVars, diverseVars, dirVars, hybridVars, indexVars,
    ordVars, searchVars, judgeVars, timeVars, rankingVars, sqlVars, windowVars>>

(***************************************************************************)
(* Bounds of the model.                                                    *)
(***************************************************************************)
NumIds == 4          \* chunk ids 1..NumIds can occur in a ranking
MaxLen == 3          \* longest ranking
MaxParas == 4        \* most paragraphs in a text
MaxDocs == 3         \* most rerank candidates
NumChunks == 3       \* rows of the chunks table seen by search_diverse
MaxCalls == 3        \* most ingest_document calls in a run
MaxText == 5         \* most characters in a text cut into fixed-size windows
MaxTimeLen == 5      \* longest time string
MaxChunks == 2       \* most chunks of text an answer is streamed in

(***************************************************************************)
(* Generic helpers.                                                        *)
(***************************************************************************)
Range(s) == {s[i] : i \in 1..Len(s)}

Min(a, b) == IF a <= b THEN a ELSE b

Take(s, n) == SubSeq(s, 1, Min(n, Len(s)))

\* Sequences over S without repetition, of length at most n.
DistinctSeqs(S, n) ==
    UNION {{s \in [1..m -> S] : \A i, j \in 1..m : i # j => s[i] # s[j]} : m \in 0..n}

SeqsUpTo(S, n) == UNION {[1..m -> S] : m \in 0..n}

(***************************************************************************)
(* Fuser: reciprocal_rank_fusion.                                          *)
(* Scores are the exact rationals 1/(k+rank) summed, written as integer    *)
(* numerators over the common denominator Denominator.  The callers pass   *)
(* two rankings, so a score is one float or the sum of two: float addition *)
(* of two terms is commutative, and distinct sums of the bound's terms     *)
(* stay distinct as floats, so equal and unequal scores are those of the   *)
(* rationals.                                                              *)
(***************************************************************************)
K == 60
NumLists == 2

Ids == 1..NumIds

RECURSIVE ProductTo(_)
ProductTo(n) == IF n = 0 THEN 1 ELSE (K + n) * ProductTo(n - 1)

\* A common multiple of every k + rank the model can form.
Denominator == ProductTo(MaxLen)

\* scores[doc_id] += 1.0 / (k + rank), started from rank 0 by mistake.
ContributionFromZero(k, rank) == Denominator \div (k + rank - 1)

\* 1.0 / (k + rank)
Contribution(k, rank) == Denominator \div (k + rank)

HasKey(d, id) == \E i \in 1..Len(d) : d[i].id = id

KeyIndex(d, id) == CHOOSE i \in 1..Len(d) : d[i].id = id

\* if doc_id not in scores: scores[doc_id] = 0.0 ; scores[doc_id] += x
\* A new key goes to the end of the dict's insertion order.
DictAdd(d, id, x) ==
    IF HasKey(d, id)
    THEN [d EXCEPT ![KeyIndex(d, id)].score = @ + x]
    ELSE Append(d, [id |-> id, score |-> x])

\* Place of e in a list already sorted by score descending: after every
\* element whose score is >= e's (equal keys keep their original order).
RECURSIVE InsertDesc(_, _)
InsertDesc(s, e) ==
    IF s = <<>> THEN <<e>>
    ELSE IF Head(s).score >= e.score
         THEN <<Head(s)>> \o InsertDesc(Tail(s), e)
         ELSE <<e>> \o s

RECURSIVE StableSortDesc(_)
StableSortDesc(s) ==
    IF s = <<>> THEN <<>>
    ELSE InsertDesc(StableSortDesc(SubSeq(s, 1, Len(s) - 1)), s[Len(s)])

\* sorted(...) without reverse=True: ascending.
RECURSIVE InsertAsc(_, _)
InsertAsc(s, e) ==
    IF s = <<>> THEN <<e>>
    ELSE IF Head(s).score <= e.score
         THEN <<Head(s)>> \o InsertAsc(Tail(s), e)
         ELSE <<e>> \o s

RECURSIVE SortedAscending(_)
SortedAscending(s) ==
    IF s = <<>> THEN <<>>
    ELSE InsertAsc(SortedAscending(SubSeq(s, 1, Len(s) - 1)), s[Len(s)])

\* The sort left out: the dict's items in insertion order.
SortedMissing(items) == items

\* sorted(scores.items(), key=lambda x: x[1], reverse=True): Python's sort is
\* stable and reverse=True keeps the original order of equal keys.
Sorted(items) == StableSortDesc(items)

FuseInit ==
    /\ rankings \in [1..NumLists -> DistinctSeqs(Ids, MaxLen)]
    /\ fpc = "loop"
    /\ li = 1
    /\ pos = 1
    /\ scores = <<>>
    /\ combined = <<>>

FuseIdle ==
    /\ rankings = <<>>
    /\ fpc = "off"
    /\ li = 0
    /\ pos = 0
    /\ scores = <<>>
    /\ combined = <<>>

\* One iteration of the inner loop: for rank, doc_id in enumerate(ranking, start=1).
FuseAccumulate ==
    /\ fpc = "loop"
    /\ li <= Len(rankings)
    /\ pos <= Len(rankings[li])
    /\ scores' = DictAdd(scores, rankings[li][pos], Contribution(K, pos))
    /\ pos' = pos + 1
    /\ UNCHANGED <<rankings, fpc, li, combined, exceptFuse>>

\* The inner loop is exhausted: the outer loop takes the next ranking.
FuseNextRanking ==
    /\ fpc = "loop"
    /\ li <= Len(rankings)
    /\ pos > Len(rankings[li])
    /\ li' = li + 1
    /\ pos' = 1
    /\ UNCHANGED <<rankings, fpc, scores, combined, exceptFuse>>

\* return sorted(scores.items(), ...)
FuseReturn ==
    /\ fpc = "loop"
    /\ li > Len(rankings)
    /\ combined' = Sorted(scores)
    /\ fpc' = "done"
    /\ UNCHANGED <<rankings, li, pos, scores, exceptFuse>>

FuseNext == FuseAccumulate \/ FuseNextRanking \/ FuseReturn

(***************************************************************************)
(* Chunker: chunk_text of the document search project and chunk_by_tokens  *)
(* of the week-4 setup, which share the loop and differ in the handling    *)
(* of the final buffer.  A text is the sequence of its paragraphs          *)
(* (text.split("\n\n")); a paragraph is known by count_tokens of its       *)
(* stripped form, 0 for a paragraph that strips to nothing.  A chunk is    *)
(* the list of paragraphs joined in it and the token count the chunker     *)
(* accounts for it.                                                        *)
(***************************************************************************)
Chunkers == {"chunk_text", "chunk_by_tokens"}

MIN_CHUNK_TOKENS == 100
MAX_CHUNK_TOKENS == 500

\* Token counts a paragraph may have: blank, small, medium, large, oversized.
ParaSizes == {0, 40, 250, 480, 600}

\* A paragraph that is never taken for blank.
BlankNever(para_tokens) == FALSE

\* para = para.strip(); "if not para"
Blank(para_tokens) == para_tokens = 0

ChunkInit ==
    /\ chunker \in Chunkers
    /\ paragraphs \in SeqsUpTo(ParaSizes, MaxParas)
    /\ cpc = "loop"
    /\ pi = 1
    /\ chunks = <<>>
    /\ current_chunk = <<>>
    /\ current_tokens = 0

ChunkIdle ==
    /\ chunker = "off"
    /\ paragraphs = <<>>
    /\ cpc = "off"
    /\ pi = 0
    /\ chunks = <<>>
    /\ current_chunk = <<>>
    /\ current_tokens = 0

\* current_chunk and (current_tokens + para_tokens) > MAX_CHUNK_TOKENS
WouldExceed(buffer, tokens, para_tokens) ==
    buffer # <<>> /\ (tokens + para_tokens) > MAX_CHUNK_TOKENS

\* One iteration of "for para in paragraphs".
ChunkParagraph ==
    /\ cpc = "loop"
    /\ pi <= Len(paragraphs)
    /\ pi' = pi + 1
    /\ LET para_tokens == paragraphs[pi] IN
       \/ \* if not para: continue
          /\ Blank(para_tokens)
          /\ UNCHANGED <<chunks, current_chunk, current_tokens>>
       \/ \* flush the buffer and start a new one with this paragraph
          /\ ~Blank(para_tokens)
          /\ WouldExceed(current_chunk, current_tokens, para_tokens)
          /\ chunks' = Append(chunks, [paras |-> current_chunk, tokens |-> current_tokens])
          /\ current_chunk' = <<pi>>
          /\ current_tokens' = para_tokens
       \/ \* add the paragraph to the buffer
          /\ ~Blank(para_tokens)
          /\ ~WouldExceed(current_chunk, current_tokens, para_tokens)
          /\ current_chunk' = Append(current_chunk, pi)
          /\ current_tokens' = current_tokens + para_tokens
          /\ UNCHANGED chunks
    /\ UNCHANGED <<chunker, paragraphs, cpc, exceptChunk>>

\* "Handle final chunk" and return.
ChunkFinal ==
    /\ cpc = "loop"
    /\ pi > Len(paragraphs)
    /\ \/ \* nothing buffered
          /\ current_chunk = <<>>
          /\ UNCHANGED chunks
       \/ \* chunk_text: a short tail is appended to the last chunk
          /\ chunker = "chunk_text"
          /\ current_chunk # <<>>
          /\ current_tokens < MIN_CHUNK_TOKENS /\ chunks # <<>>
          /\ chunks' = [chunks EXCEPT ![Len(chunks)] =
                           [paras |-> @.paras \o current_chunk,
                            tokens |-> @.tokens + current_tokens]]
       \/ \* chunk_text: the tail is a chunk of its own
          /\ chunker = "chunk_text"
          /\ current_chunk # <<>>
          /\ ~(current_tokens < MIN_CHUNK_TOKENS /\ chunks # <<>>)
          /\ chunks' = Append(chunks, [paras |-> current_chunk, tokens |-> current_tokens])
       \/ \* chunk_by_tokens: "if current and current_tokens >= min_tokens"
          /\ chunker = "chunk_by_tokens"
          /\ current_chunk # <<>>
          /\ current_tokens >= MIN_CHUNK_TOKENS
          /\ chunks' = Append(chunks, [paras |-> current_chunk, tokens |-> current_tokens])
       \/ \* chunk_by_tokens: a tail under min_tokens is not added
          /\ chunker = "chunk_by_tokens"
          /\ current_chunk # <<>>
          /\ current_tokens < MIN_CHUNK_TOKENS
          /\ UNCHANGED chunks
    /\ cpc' = "done"
    /\ UNCHANGED <<chunker, paragraphs, pi, current_chunk, current_tokens, exceptChunk>>

ChunkNext == ChunkParagraph \/ ChunkFinal

(***************************************************************************)
(* Batched reranker: rerank_with_llm_batch.  The judge is the external     *)
(* model call; its parsed reply is any list of integer scores, of any      *)
(* length, or the call raises.                                             *)
(***************************************************************************)
\* Scores a judge may give (Field "Relevance scores 1-10").
ScoreValues == {1, 5, 10}

RerankInit ==
    /\ documents \in {[i \in 1..n |-> i] : n \in 0..MaxDocs}
    /\ top_n \in 1..MaxDocs
    /\ reply = <<>>
    /\ rpc = "call"
    /\ reranked = <<>>

RerankIdle ==
    /\ documents = <<>>
    /\ top_n = 0
    /\ reply = <<>>
    /\ rpc = "off"
    /\ reranked = <<>>

\* zip(documents, scores): pairs up to the shorter of the two.
Zip(docs, scs) ==
    [i \in 1..Min(Len(docs), Len(scs)) |-> [id |-> docs[i], score |-> scs[i]]]

\* client.responses.parse(...) returns a BatchRelevanceScores.
RerankJudgeReplies ==
    /\ rpc = "call"
    /\ reply' \in SeqsUpTo(ScoreValues, MaxDocs + 1)
    /\ rpc' = "scored"
    /\ UNCHANGED <<documents, top_n, reranked, exceptRerank>>

\* client.responses.parse(...) raises (API error, reply not parseable
\* into the schema): nothing catches it.
RerankJudgeRaises ==
    /\ rpc = "call"
    /\ rpc' = "raised"
    /\ UNCHANGED <<documents, top_n, reply, reranked, exceptRerank>>

\* scored = [... zip(documents, scores)]; scored.sort(reverse=True); return scored[:top_n]
RerankReturn ==
    /\ rpc = "scored"
    /\ reranked' = Take([i \in 1..Len(Sorted(Zip(documents, reply))) |->
                            Sorted(Zip(documents, reply))[i].id], top_n)
    /\ rpc' = "done"
    /\ UNCHANGED <<documents, top_n, reply, exceptRerank>>

RerankNext == RerankJudgeReplies \/ RerankJudgeRaises \/ RerankReturn

(***************************************************************************)
(* Diverse search: search_diverse.  The corpus is the chunks table joined  *)
(* with documents; the query's two ORDER BY clauses order rows of equal    *)
(* distance in any way, so each is a choice among the orders that agree    *)
(* with the distances.                                                     *)
(***************************************************************************)
ChunkIds == 1..NumChunks
DocIds == {"d1", "d2"}
Distances == {1, 2}

\* The total orders of the rows of S that ORDER BY distance may produce.
OrdersByDistance(S, c) ==
    {s \in [1..Cardinality(S) -> S] :
        /\ \A i, j \in 1..Cardinality(S) : i # j => s[i] # s[j]
        /\ \A i, j \in 1..Cardinality(S) : i < j => c[s[i]].distance <= c[s[j]].distance}

IndexOf(s, x) == CHOOSE i \in 1..Len(s) : s[i] = x

\* RANK() in place of ROW_NUMBER(): rows of equal distance share a rank.
RankWithTies(order, c, id) ==
    1 + Cardinality({j \in 1..Len(order) :
                        /\ c[order[j]].doc = c[id].doc
                        /\ c[order[j]].distance < c[id].distance})

\* ROW_NUMBER() OVER (PARTITION BY c.document_id ORDER BY distance), for the
\* row id, when the rows come in the order `order`.
RowNumber(order, c, id) ==
    1 + Cardinality({j \in 1..Len(order) :
                        /\ c[order[j]].doc = c[id].doc
                        /\ j < IndexOf(order, id)})

DiverseInit ==
    /\ corpus \in [ChunkIds -> [doc : DocIds, distance : Distances]]
    /\ per_document \in 1..NumChunks
    /\ limit \in 1..NumChunks
    /\ rank_in_doc = <<>>
    /\ dpc = "ranked"
    /\ diverse = <<>>

DiverseIdle ==
    /\ corpus = <<>>
    /\ per_document = 0
    /\ limit = 0
    /\ rank_in_doc = <<>>
    /\ dpc = "off"
    /\ diverse = <<>>

\* WITH ranked AS (SELECT ..., ROW_NUMBER() OVER (...) AS rank_in_doc ...)
DiverseRank ==
    /\ dpc = "ranked"
    /\ \E order \in OrdersByDistance(ChunkIds, corpus) :
          rank_in_doc' = [id \in ChunkIds |-> RowNumber(order, corpus, id)]
    /\ dpc' = "selected"
    /\ UNCHANGED <<corpus, per_document, limit, diverse, exceptDiverse>>

\* SELECT ... FROM ranked WHERE rank_in_doc <= %s ORDER BY distance LIMIT %s
DiverseSelect ==
    /\ dpc = "selected"
    /\ \E order \in OrdersByDistance({id \in ChunkIds : rank_in_doc[id] <= per_document}, corpus) :
          diverse' = Take(order, limit)
    /\ dpc' = "done"
    /\ UNCHANGED <<corpus, per_document, limit, rank_in_doc, exceptDiverse>>

DiverseNext == DiverseRank \/ DiverseSelect

(***************************************************************************)
(* Ingestion: ingest_document over the chunks table.                       *)
(* The table is PostgreSQL's: a connection's statements run in a           *)
(* transaction that is invisible to others until conn.commit(), a DELETE   *)
(* sees the rows committed when it starts and waits for a concurrent       *)
(* transaction that deleted one of them, and closing a connection without  *)
(* commit rolls its transaction back.  Two ingest_document exist: the one  *)
(* that deletes the source's rows before inserting ("replace") and the     *)
(* one that only inserts ("append").                                       *)
(***************************************************************************)
Sources == {"s1", "s2"}
\* What a file may parse and chunk to: nothing, one chunk, another chunk, two chunks.
Texts == {<<>>, <<"a">>, <<"b">>, <<"a", "b">>}
Callers == {1, 2}
Variants == {"replace", "append"}

\* The log keeps the last two returned calls.
Logged(l, rec) == IF Len(l) < 2 THEN Append(l, rec) ELSE <<l[2], rec>>

RowsOfSource(t, s) == {r \in t : r.source = s}

\* Contents of a set of rows, by ascending id.
RECURSIVE ContentsById(_)
ContentsById(rows) ==
    IF rows = {} THEN <<>>
    ELSE LET first == CHOOSE r \in rows : \A q \in rows : r.id <= q.id
         IN <<first.content>> \o ContentsById(rows \ {first})

IngestInit ==
    /\ variant \in Variants
    /\ files \in [Sources -> Texts]
    /\ table = {}
    /\ nextId = 1
    /\ started = 0
    /\ ipc = [p \in Callers |-> "idle"]
    /\ source = [p \in Callers |-> "s1"]
    /\ work = [p \in Callers |-> <<>>]
    /\ snap = [p \in Callers |-> {}]
    /\ txDel = [p \in Callers |-> {}]
    /\ txIns = [p \in Callers |-> {}]
    /\ before = [p \in Callers |-> {}]
    /\ cause = [p \in Callers |-> "none"]
    /\ log = <<>>

IngestIdle ==
    /\ variant = "off"
    /\ files = <<>>
    /\ table = {}
    /\ nextId = 0
    /\ started = 0
    /\ ipc = <<>>
    /\ source = <<>>
    /\ work = <<>>
    /\ snap = <<>>
    /\ txDel = <<>>
    /\ txIns = <<>>
    /\ before = <<>>
    /\ cause = <<>>
    /\ log = <<>>

\* The file behind a source is rewritten between calls.
EditSource(s) ==
    /\ \A p \in Callers : ipc[p] \in {"idle", "returned", "raised"}
    /\ started < MaxCalls
    /\ \E new \in Texts :
          /\ new # files[s]
          /\ files' = [files EXCEPT ![s] = new]
    /\ UNCHANGED <<variant, table, nextId, started, ipc, source, work, snap,
                   txDel, txIns, before, cause, log, exceptIngest>>

\* ingest_document(source) is called.
IngestCall(p, s) ==
    /\ ipc[p] \in {"idle", "returned", "raised"}
    /\ started < MaxCalls
    /\ started' = started + 1
    /\ ipc' = [ipc EXCEPT ![p] = "called"]
    /\ source' = [source EXCEPT ![p] = s]
    /\ work' = [work EXCEPT ![p] = <<>>]
    /\ before' = [before EXCEPT ![p] = table]
    /\ cause' = [cause EXCEPT ![p] = "none"]
    /\ UNCHANGED <<variant, files, table, nextId, snap, txDel, txIns, log, exceptIngest>>

\* text = parse_document(source); chunks = chunk_text(text); an empty text or
\* no chunks returns 0 at once.
IngestParse(p) ==
    /\ ipc[p] = "called"
    /\ work' = [work EXCEPT ![p] = files[source[p]]]
    /\ IF files[source[p]] = <<>>
       THEN /\ ipc' = [ipc EXCEPT ![p] = "returned"]
            /\ log' = Logged(log, [source |-> source[p], chunks |-> <<>>, ret |-> 0,
                                   rows |-> ContentsById(RowsOfSource(table, source[p]))])
       ELSE /\ ipc' = [ipc EXCEPT ![p] = "parsed"]
            /\ UNCHANGED log
    /\ UNCHANGED <<variant, files, table, nextId, started, source, snap, txDel, txIns,
                   before, cause, exceptIngest>>

\* The file is missing or the parser raises.
IngestParseRaises(p) ==
    /\ ipc[p] = "called"
    /\ ipc' = [ipc EXCEPT ![p] = "raised"]
    /\ cause' = [cause EXCEPT ![p] = "parse"]
    /\ UNCHANGED <<variant, files, table, nextId, started, source, work, snap, txDel,
                   txIns, before, log, exceptIngest>>

\* embeddings = embed_texts(chunks) returns.
IngestEmbed(p) ==
    /\ ipc[p] = "parsed"
    /\ ipc' = [ipc EXCEPT ![p] = IF variant = "replace" THEN "embedded" ELSE "inserting"]
    /\ UNCHANGED <<variant, files, table, nextId, started, source, work, snap, txDel,
                   txIns, before, cause, log, exceptIngest>>

\* An embedder failure with the source's rows deleted and committed first.
IngestEmbedRaisesAfterDelete(p) ==
    /\ ipc[p] = "parsed"
    /\ ipc' = [ipc EXCEPT ![p] = "raised"]
    /\ cause' = [cause EXCEPT ![p] = "embed"]
    /\ table' = table \ RowsOfSource(table, source[p])
    /\ UNCHANGED <<variant, files, nextId, started, source, work, snap, txDel,
                   txIns, before, log, exceptIngest>>

\* embed_texts(chunks) raises: the call ends before any statement is sent.
IngestEmbedRaises(p) ==
    /\ ipc[p] = "parsed"
    /\ ipc' = [ipc EXCEPT ![p] = "raised"]
    /\ cause' = [cause EXCEPT ![p] = "embed"]
    /\ UNCHANGED <<variant, files, table, nextId, started, source, work, snap, txDel,
                   txIns, before, log, exceptIngest>>

\* DELETE FROM chunks WHERE source = %s starts: it sees the committed rows.
IngestDeleteBegin(p) ==
    /\ ipc[p] = "embedded"
    /\ snap' = [snap EXCEPT ![p] = {r.id : r \in RowsOfSource(table, source[p])}]
    /\ ipc' = [ipc EXCEPT ![p] = "deleting"]
    /\ UNCHANGED <<variant, files, table, nextId, started, source, work, txDel,
                   txIns, before, cause, log, exceptIngest>>

\* The DELETE completes once no open transaction holds a row it targets; rows
\* a transaction committed since removed are skipped, rows committed since
\* the statement started are not seen.
IngestDeleteEnd(p) ==
    /\ ipc[p] = "deleting"
    /\ \A q \in Callers \ {p} : txDel[q] \cap snap[p] = {}
    /\ txDel' = [txDel EXCEPT ![p] = snap[p] \cap {r.id : r \in table}]
    /\ ipc' = [ipc EXCEPT ![p] = "inserting"]
    /\ UNCHANGED <<variant, files, table, nextId, started, source, work, snap,
                   txIns, before, cause, log, exceptIngest>>

\* One INSERT INTO chunks (source, content, embedding) of the loop.
IngestInsert(p) ==
    /\ ipc[p] = "inserting"
    /\ Cardinality(txIns[p]) < Len(work[p])
    /\ txIns' = [txIns EXCEPT ![p] = @ \cup
                    {[id |-> nextId, source |-> source[p],
                      content |-> work[p][Cardinality(txIns[p]) + 1]]}]
    /\ nextId' = nextId + 1
    /\ UNCHANGED <<variant, files, table, started, ipc, source, work, snap, txDel,
                   before, cause, log, exceptIngest>>

\* conn.commit(); return len(chunks)
IngestCommit(p) ==
    /\ ipc[p] = "inserting"
    /\ Cardinality(txIns[p]) = Len(work[p])
    /\ table' = {r \in table : r.id \notin txDel[p]} \cup txIns[p]
    /\ txDel' = [txDel EXCEPT ![p] = {}]
    /\ txIns' = [txIns EXCEPT ![p] = {}]
    /\ snap' = [snap EXCEPT ![p] = {}]
    /\ ipc' = [ipc EXCEPT ![p] = "returned"]
    /\ log' = Logged(log, [source |-> source[p], chunks |-> work[p], ret |-> Len(work[p]),
                           rows |-> ContentsById(RowsOfSource(table', source[p]))])
    /\ UNCHANGED <<variant, files, nextId, started, source, work, before, cause,
                   exceptIngest>>

IngestStep(p) ==
    \/ \E s \in Sources : IngestCall(p, s)
    \/ IngestParse(p)
    \/ IngestParseRaises(p)
    \/ IngestEmbed(p)
    \/ IngestEmbedRaises(p)
    \/ IngestDeleteBegin(p)
    \/ IngestDeleteEnd(p)
    \/ IngestInsert(p)
    \/ IngestCommit(p)

\* One caller, one call after another, the files edited in between.
IngestSeqNext == IngestStep(1) \/ \E s \in Sources : EditSource(s)

\* Two callers at once.
IngestConcNext == \E p \in Callers : IngestStep(p)

(***************************************************************************)
(* Ingestion of a text: ingest_document with the chunker run on the parsed *)
(* text, the paragraphs of the chunker above.  The document search project *)
(* chunks with chunk_text and replaces, the week-4 setup chunks with       *)
(* chunk_by_tokens and appends.  The store is empty or holds a row that an *)
(* earlier ingestion of the source left.                                   *)
(***************************************************************************)
\* not text.strip()
TextIsBlank(ps) == \A i \in 1..Len(ps) : ps[i] = 0

TextInit ==
    /\ ChunkInit
    /\ variant = IF chunker = "chunk_text" THEN "replace" ELSE "append"
    /\ files = [s \in Sources |-> <<>>]      \* not consulted: the text is paragraphs
    /\ table \in {{}, {[id |-> 1, source |-> "s1", content |-> "a"]}}
    /\ nextId = Cardinality(table) + 1
    /\ started = 0
    /\ ipc = [p \in Callers |-> "idle"]
    /\ source = [p \in Callers |-> "s1"]
    /\ work = [p \in Callers |-> <<>>]
    /\ snap = [p \in Callers |-> {}]
    /\ txDel = [p \in Callers |-> {}]
    /\ txIns = [p \in Callers |-> {}]
    /\ before = [p \in Callers |-> {}]
    /\ cause = [p \in Callers |-> "none"]
    /\ log = <<>>

\* ingest_document(source) is called, once.
TextCall ==
    /\ started = 0
    /\ IngestCall(1, "s1")

\* text = parse_document(source); if not text.strip(): return 0
TextParse ==
    /\ ipc[1] = "called"
    /\ IF TextIsBlank(paragraphs)
       THEN /\ ipc' = [ipc EXCEPT ![1] = "returned"]
            /\ log' = Logged(log, [source |-> source[1], chunks |-> <<>>, ret |-> 0,
                                   rows |-> ContentsById(RowsOfSource(table, source[1]))])
       ELSE /\ ipc' = [ipc EXCEPT ![1] = "chunking"]
            /\ UNCHANGED log
    /\ UNCHANGED <<variant, files, table, nextId, started, source, work, snap, txDel, txIns,
                   before, cause, chunkVars, exceptText>>

\* chunks = chunk_text(text); if not chunks: return 0
TextChunked ==
    /\ ipc[1] = "chunking"
    /\ cpc = "done"
    /\ work' = [work EXCEPT ![1] = chunks]
    /\ IF chunks = <<>>
       THEN /\ ipc' = [ipc EXCEPT ![1] = "returned"]
            /\ log' = Logged(log, [source |-> source[1], chunks |-> <<>>, ret |-> 0,
                                   rows |-> ContentsById(RowsOfSource(table, source[1]))])
       ELSE /\ ipc' = [ipc EXCEPT ![1] = "parsed"]
            /\ UNCHANGED log
    /\ UNCHANGED <<variant, files, table, nextId, started, source, snap, txDel, txIns,
                   before, cause, chunkVars, exceptText>>

TextNext ==
    \/ TextCall
    \/ TextParse
    \/ ChunkParagraph
    \/ ChunkFinal
    \/ TextChunked
    \/ IngestEmbed(1)
    \/ IngestEmbedRaises(1)
    \/ IngestDeleteBegin(1)
    \/ IngestDeleteEnd(1)
    \/ IngestInsert(1)
    \/ IngestCommit(1)

(***************************************************************************)
(* Batch ingestion: ingest_directory, one ingest_document per discovered   *)
(* file on the steps above.  The document search project ("replace")       *)
(* wraps each call in try/except and counts into stats; the chatbot's      *)
(* script ("append") calls ingest_document bare, adds up total_chunks and  *)
(* returns None; the project setup lesson ("append") wraps each call in    *)
(* try/except and keeps files, chunks and the list of errors.              *)
(***************************************************************************)
BatchFns ==
    {"doc_search.ingest_directory", "scripts.ingest_directory", "project_setup.ingest_directory"}

\* The ingest_document each ingest_directory calls.
VariantOf(fn) == IF fn = "doc_search.ingest_directory" THEN "replace" ELSE "append"

\* Whether the call of ingest_document is inside try/except Exception.
Catches(fn) == fn # "scripts.ingest_directory"

InitialStats(fn, found) ==
    IF fn = "doc_search.ingest_directory"
    THEN [total |-> Len(found), success |-> 0, failed |-> 0, chunks |-> 0]
    ELSE IF fn = "project_setup.ingest_directory"
    THEN [files |-> 0, chunks |-> 0, errors |-> <<>>]
    ELSE [chunks |-> 0]

DirInit ==
    /\ batch_fn \in {fn \in BatchFns : VariantOf(fn) = variant}
    /\ discovered \in DistinctSeqs(Sources, Cardinality(Sources))
    /\ bi = 1
    /\ stats = InitialStats(batch_fn, discovered)
    /\ attempts = <<>>
    /\ summary = <<>>
    /\ bpc = "loop"

DirIdle ==
    /\ batch_fn = "off"
    /\ discovered = <<>>
    /\ bi = 0
    /\ stats = <<>>
    /\ attempts = <<>>
    /\ summary = <<>>
    /\ bpc = "off"

\* The loop reaches a file: ingest_document(file_path) is called.
DirAttempt ==
    /\ bpc = "loop"
    /\ bi <= Len(discovered)
    /\ started = bi - 1
    /\ IngestCall(1, discovered[bi])

\* The counters after ingest_document returned n.
Tallied(fn, st, n) ==
    IF fn = "doc_search.ingest_directory"
    THEN [st EXCEPT !.success = @ + 1, !.chunks = @ + n]
    ELSE IF fn = "project_setup.ingest_directory"
    THEN [st EXCEPT !.files = @ + 1, !.chunks = @ + n]
    ELSE [st EXCEPT !.chunks = @ + n]

\* ingest_document returned n: the counters are advanced.
DirTally ==
    /\ bpc = "loop"
    /\ started = bi
    /\ ipc[1] = "returned"
    /\ LET n == log[Len(log)].ret IN
          /\ stats' = Tallied(batch_fn, stats, n)
          /\ attempts' = Append(attempts, [source |-> source[1], raised |-> FALSE, ret |-> n])
    /\ bi' = bi + 1
    /\ UNCHANGED <<discovered, summary, bpc, batch_fn, ingestVars, exceptDir>>

\* The counters after ingest_document raised e on file: stats["failed"] += 1,
\* or stats["errors"].append({"file": ..., "error": str(e)}).
Caught(fn, st, file, e) ==
    IF fn = "doc_search.ingest_directory"
    THEN [st EXCEPT !.failed = @ + 1]
    ELSE [st EXCEPT !.errors = Append(@, [file |-> file, error |-> e])]

\* except Exception: the failure is recorded, and the loop goes on.
DirCatch ==
    /\ bpc = "loop"
    /\ started = bi
    /\ ipc[1] = "raised"
    /\ Catches(batch_fn)
    /\ stats' = Caught(batch_fn, stats, source[1], cause[1])
    /\ attempts' = Append(attempts, [source |-> source[1], raised |-> TRUE, ret |-> 0])
    /\ bi' = bi + 1
    /\ UNCHANGED <<discovered, summary, bpc, batch_fn, ingestVars, exceptDir>>

\* No except clause: the exception leaves ingest_directory through the
\* finally that closes the connection.
DirPropagate ==
    /\ bpc = "loop"
    /\ started = bi
    /\ ipc[1] = "raised"
    /\ ~Catches(batch_fn)
    /\ attempts' = Append(attempts, [source |-> source[1], raised |-> TRUE, ret |-> 0])
    /\ bpc' = "raised"
    /\ UNCHANGED <<discovered, bi, stats, summary, batch_fn, ingestVars, exceptDir>>

\* The loop is over: return stats (the chatbot's script returns None).
DirReturn ==
    /\ bpc = "loop"
    /\ bi > Len(discovered)
    /\ summary' = IF Catches(batch_fn) THEN stats ELSE <<>>
    /\ bpc' = "done"
    /\ UNCHANGED <<discovered, bi, stats, attempts, batch_fn, ingestVars, exceptDir>>

DirNext ==
    \/ DirAttempt
    \/ IngestParse(1)
    \/ IngestParseRaises(1)
    \/ IngestEmbed(1)
    \/ IngestEmbedRaises(1)
    \/ IngestDeleteBegin(1)
    \/ IngestDeleteEnd(1)
    \/ IngestInsert(1)
    \/ IngestCommit(1)
    \/ DirTally
    \/ DirCatch
    \/ DirPropagate
    \/ DirReturn

(***************************************************************************)
(* Hybrid query: hybrid_search_with_provenance of the document search app  *)
(* and the two search_hybrid functions.  The two indexes are known by the  *)
(* full ranking each would return without a LIMIT; a chunk stored without  *)
(* an embedding is absent from the vector ranking, a chunk that does not   *)
(* match the query from the keyword ranking.                               *)
(***************************************************************************)
HybridFns == {"hybrid_search_with_provenance", "search_hybrid", "search_hybrid_candidates"}

HitIds == {1, 2, 3, 4}

Limits == {1, 2, 3}

\* Values of the candidates argument (its default is 20).
CandidateCounts == {1, 3}

\* Each index asked for limit rows only.
OverfetchNone(fn, lim, cand) == lim

\* The number of rows each index is asked for: limit * 2, or candidates.
Overfetch(fn, lim, cand) == IF fn = "search_hybrid_candidates" THEN cand ELSE lim * 2

\* ... ORDER BY ... LIMIT n
VectorSearch(n) == Take(vector_order, n)

KeywordSearch(n) == Take(keyword_order, n)

\* for rank, r in enumerate(ranking, 1): scores[id] = scores.get(id, 0) + 1 / (k + rank)
RECURSIVE AddRanking(_, _, _)
AddRanking(d, ranking, rank) ==
    IF rank > Len(ranking) THEN d
    ELSE AddRanking(DictAdd(d, ranking[rank], Contribution(K, rank)), ranking, rank + 1)

\* [:limit]
Truncate(ranked, lim) == Take(ranked, lim)

\* Never "both": an id of the vector list is tagged "vector".
ProvenanceNeverBoth(in_vector, in_keyword) ==
    IF in_vector THEN "vector" ELSE "keyword"

\* The two single tags exchanged.
ProvenanceSwapped(in_vector, in_keyword) ==
    IF in_vector /\ in_keyword THEN "both"
    ELSE IF in_vector THEN "keyword"
    ELSE "vector"

\* if in_vector and in_keyword: "both" / elif in_vector: "vector" / else: "keyword"
Provenance(in_vector, in_keyword) ==
    IF in_vector /\ in_keyword THEN "both"
    ELSE IF in_vector THEN "vector"
    ELSE "keyword"

HybridInit ==
    /\ hybrid_fn \in HybridFns
    /\ vector_order \in DistinctSeqs(HitIds, MaxLen)
    /\ keyword_order \in DistinctSeqs(HitIds, MaxLen)
    /\ qlimit \in Limits
    /\ candidates \in IF hybrid_fn = "search_hybrid_candidates" THEN CandidateCounts ELSE {0}
    /\ asked_vector = 0
    /\ asked_keyword = 0
    /\ vector_results = <<>>
    /\ keyword_results = <<>>
    /\ hscores = <<>>
    /\ results = <<>>
    /\ hpc = "start"

HybridIdle ==
    /\ hybrid_fn = "off"
    /\ vector_order = <<>>
    /\ keyword_order = <<>>
    /\ qlimit = 0
    /\ candidates = 0
    /\ asked_vector = 0
    /\ asked_keyword = 0
    /\ vector_results = <<>>
    /\ keyword_results = <<>>
    /\ hscores = <<>>
    /\ results = <<>>
    /\ hpc = "off"

\* vector_results = vector_search(query, limit * 2)
HybridVectorSearch ==
    /\ hpc = "start"
    /\ asked_vector' = Overfetch(hybrid_fn, qlimit, candidates)
    /\ vector_results' = VectorSearch(asked_vector')
    /\ hpc' = "vector"
    /\ UNCHANGED <<hybrid_fn, vector_order, keyword_order, qlimit, candidates, asked_keyword,
                   keyword_results, hscores, results, exceptHybrid>>

\* keyword_results = keyword_search(query, limit * 2)
HybridKeywordSearch ==
    /\ hpc = "vector"
    /\ asked_keyword' = Overfetch(hybrid_fn, qlimit, candidates)
    /\ keyword_results' = KeywordSearch(asked_keyword')
    /\ hpc' = "keyword"
    /\ UNCHANGED <<hybrid_fn, vector_order, keyword_order, qlimit, candidates, asked_vector,
                   vector_results, hscores, results, exceptHybrid>>

\* The two RRF loops (reciprocal_rank_fusion([vector_ids, fulltext_ids])).
HybridFuse ==
    /\ hpc = "keyword"
    /\ hscores' = AddRanking(AddRanking(<<>>, vector_results, 1), keyword_results, 1)
    /\ hpc' = "fused"
    /\ UNCHANGED <<hybrid_fn, vector_order, keyword_order, qlimit, candidates, asked_vector,
                   asked_keyword, vector_results, keyword_results, results, exceptHybrid>>

\* Sort by fused score, cut to limit, and build the rows returned: with
\* found_by in the app, fetched by id (in ranking order) in search_hybrid.
HybridReturn ==
    /\ hpc = "fused"
    /\ LET top == Truncate(Sorted(hscores), qlimit) IN
          results' =
              IF hybrid_fn = "hybrid_search_with_provenance"
              THEN [i \in 1..Len(top) |->
                       [id |-> top[i].id, score |-> top[i].score,
                        found_by |-> Provenance(top[i].id \in Range(vector_results),
                                                top[i].id \in Range(keyword_results))]]
              ELSE [i \in 1..Len(top) |-> [id |-> top[i].id]]
    /\ hpc' = "done"
    /\ UNCHANGED <<hybrid_fn, vector_order, keyword_order, qlimit, candidates, asked_vector,
                   asked_keyword, vector_results, keyword_results, hscores, exceptHybrid>>

HybridNext == HybridVectorSearch \/ HybridKeywordSearch \/ HybridFuse \/ HybridReturn

(***************************************************************************)
(* Documents table: the functions of the two lessons that write the        *)
(* documents and chunks tables.  03_vector_search.py has index_document,   *)
(* which inserts the documents row and the chunks of process_document and  *)
(* commits; 04_pgvector.py has insert_document, insert_chunk and           *)
(* insert_chunks_batch, each an INSERT followed by a commit.  Both have a  *)
(* function that creates the tables and one that drops them.  The calls    *)
(* share the caller's connection: what a call that raised in Python had    *)
(* inserted stays in the open transaction and is committed by the next     *)
(* commit, and after a statement the server refused every statement fails  *)
(* (nothing rolls the transaction back).                                   *)
(***************************************************************************)
IndexFns == {"index_document", "insert_document"}

\* Numbers of chunks process_document may produce.
DocChunkCounts == {0, 2}

\* Values of the document_id argument of insert_chunk and insert_chunks_batch.
DocIdArgs == {1, 2}

\* Values of the chunk_index argument of insert_chunk.
ChunkIndexArgs == {0, 5}

\* The chunk_index values of the chunks argument of insert_chunks_batch.
BatchArgs == {<<>>, <<5, 7>>}

\* for i, chunk in enumerate(chunks): "chunk_index": i
Enumerate(n) == [i \in 1..n |-> [chunk_index |-> i - 1]]

IndexInit ==
    /\ index_fn \in IndexFns
    /\ schema = "created"
    /\ tx_failed = FALSE
    /\ next_chunk_id = 1
    /\ doc_rows = {}
    /\ chunk_rows = {}
    /\ tx_docs = {}
    /\ tx_chunks = {}
    /\ next_doc_id = 1
    /\ xcalls = 0
    /\ xsource = "s1"
    /\ doc_id = 0
    /\ xchunks = <<>>
    /\ returned_ids = <<>>
    /\ xpc = "idle"

IndexIdle ==
    /\ index_fn = "off"
    /\ schema = "off"
    /\ tx_failed = FALSE
    /\ next_chunk_id = 0
    /\ doc_rows = {}
    /\ chunk_rows = {}
    /\ tx_docs = {}
    /\ tx_chunks = {}
    /\ next_doc_id = 0
    /\ xcalls = 0
    /\ xsource = ""
    /\ doc_id = 0
    /\ xchunks = <<>>
    /\ returned_ids = <<>>
    /\ xpc = "off"

\* No call is in progress and another may be made.
BetweenCalls == xpc \in {"idle", "returned", "raised"} /\ xcalls < MaxCalls

\* A statement on the two tables can be executed.
Usable == schema = "created" /\ ~tx_failed

\* The documents ids a statement of the connection sees.
VisibleDocIds == {r.id : r \in doc_rows \cup tx_docs}

\* The first statement of a call is refused by the server: the tables do not
\* exist or the transaction is already aborted.  The exception leaves the
\* function, and the transaction is aborted with what was pending in it.
IndexStatementRaises ==
    /\ BetweenCalls
    /\ ~Usable
    /\ xcalls' = xcalls + 1
    /\ tx_failed' = TRUE
    /\ tx_docs' = {}
    /\ tx_chunks' = {}
    /\ xpc' = "raised"
    /\ UNCHANGED <<index_fn, schema, next_chunk_id, doc_rows, chunk_rows, next_doc_id,
                   xsource, doc_id, xchunks, returned_ids, exceptIndex>>

\* insert_document(conn, source): INSERT INTO documents ... RETURNING id
InsertDocument(s) ==
    /\ index_fn = "insert_document"
    /\ BetweenCalls
    /\ Usable
    /\ xcalls' = xcalls + 1
    /\ xsource' = s
    /\ doc_id' = next_doc_id
    /\ next_doc_id' = next_doc_id + 1
    /\ tx_docs' = tx_docs \cup {[id |-> next_doc_id, source |-> s]}
    /\ xpc' = "document"
    /\ UNCHANGED <<index_fn, schema, tx_failed, next_chunk_id, doc_rows, chunk_rows,
                   tx_chunks, xchunks, returned_ids, exceptIndex>>

\* insert_document: conn.commit(); return result[0]
InsertDocumentCommit ==
    /\ xpc = "document"
    /\ doc_rows' = doc_rows \cup tx_docs
    /\ chunk_rows' = chunk_rows \cup tx_chunks
    /\ tx_docs' = {}
    /\ tx_chunks' = {}
    /\ returned_ids' = Append(returned_ids, [source |-> xsource, doc_id |-> doc_id])
    /\ xpc' = "returned"
    /\ UNCHANGED <<index_fn, schema, tx_failed, next_chunk_id, next_doc_id, xcalls, xsource,
                   doc_id, xchunks, exceptIndex>>

\* The rows an INSERT INTO chunks of the given chunk_index values adds, the
\* first with id first.
NewChunkRows(d, idxs, first) ==
    {[id |-> first + i - 1, document_id |-> d, chunk_index |-> idxs[i]] : i \in 1..Len(idxs)}

\* insert_chunk(conn, document_id, content, chunk_index, embedding):
\* INSERT INTO chunks ... RETURNING id
InsertChunk(d, idx) ==
    /\ index_fn = "insert_document"
    /\ BetweenCalls
    /\ Usable
    /\ d \in VisibleDocIds
    /\ xcalls' = xcalls + 1
    /\ tx_chunks' = tx_chunks \cup NewChunkRows(d, <<idx>>, next_chunk_id)
    /\ next_chunk_id' = next_chunk_id + 1
    /\ xpc' = "chunks"
    /\ UNCHANGED <<index_fn, schema, tx_failed, doc_rows, chunk_rows, tx_docs, next_doc_id,
                   xsource, doc_id, xchunks, returned_ids, exceptIndex>>

\* insert_chunks_batch(conn, document_id, chunks): executemany INSERT INTO
\* chunks; with no chunks no statement is sent.
InsertChunksBatch(d, idxs) ==
    /\ index_fn = "insert_document"
    /\ BetweenCalls
    /\ idxs # <<>> => (Usable /\ d \in VisibleDocIds)
    /\ xcalls' = xcalls + 1
    /\ tx_chunks' = tx_chunks \cup NewChunkRows(d, idxs, next_chunk_id)
    /\ next_chunk_id' = next_chunk_id + Len(idxs)
    /\ xpc' = "chunks"
    /\ UNCHANGED <<index_fn, schema, tx_failed, doc_rows, chunk_rows, tx_docs, next_doc_id,
                   xsource, doc_id, xchunks, returned_ids, exceptIndex>>

\* document_id REFERENCES documents(id): the INSERT of a chunk of a document
\* that does not exist is refused; the sequence has advanced all the same.
InsertChunkRefused(d) ==
    /\ index_fn = "insert_document"
    /\ BetweenCalls
    /\ Usable
    /\ d \notin VisibleDocIds
    /\ xcalls' = xcalls + 1
    /\ next_chunk_id' = next_chunk_id + 1
    /\ tx_failed' = TRUE
    /\ tx_docs' = {}
    /\ tx_chunks' = {}
    /\ xpc' = "raised"
    /\ UNCHANGED <<index_fn, schema, doc_rows, chunk_rows, next_doc_id, xsource, doc_id,
                   xchunks, returned_ids, exceptIndex>>

\* insert_chunk, insert_chunks_batch: conn.commit().  The commit of an
\* aborted transaction ends it without committing anything.
InsertChunkCommit ==
    /\ xpc = "chunks"
    /\ doc_rows' = doc_rows \cup tx_docs
    /\ chunk_rows' = chunk_rows \cup tx_chunks
    /\ tx_docs' = {}
    /\ tx_chunks' = {}
    /\ tx_failed' = FALSE
    /\ xpc' = "returned"
    /\ UNCHANGED <<index_fn, schema, next_chunk_id, next_doc_id, xcalls, xsource, doc_id,
                   xchunks, returned_ids, exceptIndex>>

\* drop_tables(conn): DROP TABLE IF EXISTS chunks CASCADE; DROP TABLE IF
\* EXISTS documents CASCADE
DropTables ==
    /\ BetweenCalls
    /\ ~tx_failed
    /\ xcalls' = xcalls + 1
    /\ tx_docs' = {}
    /\ tx_chunks' = {}
    /\ xpc' = "dropping"
    /\ UNCHANGED <<index_fn, schema, tx_failed, next_chunk_id, doc_rows, chunk_rows,
                   next_doc_id, xsource, doc_id, xchunks, returned_ids, exceptIndex>>

\* drop_tables: conn.commit()
DropTablesCommit ==
    /\ xpc = "dropping"
    /\ schema' = "dropped"
    /\ doc_rows' = {}
    /\ chunk_rows' = {}
    /\ xpc' = "returned"
    /\ UNCHANGED <<index_fn, tx_failed, next_chunk_id, tx_docs, tx_chunks, next_doc_id,
                   xcalls, xsource, doc_id, xchunks, returned_ids, exceptIndex>>

\* init_schema(conn): CREATE EXTENSION, CREATE TABLE IF NOT EXISTS
\* documents, chunks; conn.commit().  Tables that are created anew start
\* their id sequences at 1.
CreateTables ==
    /\ BetweenCalls
    /\ ~tx_failed
    /\ xcalls' = xcalls + 1
    /\ schema' = "created"
    /\ next_doc_id' = IF schema = "dropped" THEN 1 ELSE next_doc_id
    /\ next_chunk_id' = IF schema = "dropped" THEN 1 ELSE next_chunk_id
    /\ doc_rows' = doc_rows \cup tx_docs
    /\ chunk_rows' = chunk_rows \cup tx_chunks
    /\ tx_docs' = {}
    /\ tx_chunks' = {}
    /\ xpc' = "returned"
    /\ UNCHANGED <<index_fn, tx_failed, xsource, doc_id, xchunks, returned_ids, exceptIndex>>

\* index_document(conn, source): INSERT INTO documents ... RETURNING id
IndexInsertDocument(s) ==
    /\ index_fn = "index_document"
    /\ BetweenCalls
    /\ Usable
    /\ xcalls' = xcalls + 1
    /\ xsource' = s
    /\ doc_id' = next_doc_id
    /\ next_doc_id' = next_doc_id + 1
    /\ tx_docs' = tx_docs \cup {[id |-> next_doc_id, source |-> s]}
    /\ xchunks' = <<>>
    /\ xpc' = "inserted"
    /\ UNCHANGED <<index_fn, schema, tx_failed, next_chunk_id, doc_rows, chunk_rows,
                   tx_chunks, returned_ids, exceptIndex>>

\* chunks = process_document(source)
IndexProcess ==
    /\ xpc = "inserted"
    /\ \E n \in DocChunkCounts : xchunks' = Enumerate(n)
    /\ xpc' = "processed"
    /\ UNCHANGED <<index_fn, schema, tx_failed, next_chunk_id, doc_rows, chunk_rows, tx_docs,
                   tx_chunks, next_doc_id, xcalls, xsource, doc_id, returned_ids,
                   exceptIndex>>

\* The converter or the chunker raises.
IndexProcessRaises ==
    /\ xpc = "inserted"
    /\ xpc' = "raised"
    /\ UNCHANGED <<index_fn, schema, tx_failed, next_chunk_id, doc_rows, chunk_rows, tx_docs,
                   tx_chunks, next_doc_id, xcalls, xsource, doc_id, xchunks, returned_ids,
                   exceptIndex>>

StoredOf(d) == {r \in tx_chunks : r.document_id = d}

\* One iteration of "for chunk in chunks": embed_document, INSERT INTO chunks.
IndexStoreChunk ==
    /\ xpc = "processed"
    /\ Cardinality(StoredOf(doc_id)) < Len(xchunks)
    /\ tx_chunks' = tx_chunks \cup
           NewChunkRows(doc_id, <<xchunks[Cardinality(StoredOf(doc_id)) + 1].chunk_index>>,
                        next_chunk_id)
    /\ next_chunk_id' = next_chunk_id + 1
    /\ UNCHANGED <<index_fn, schema, tx_failed, doc_rows, chunk_rows, tx_docs, next_doc_id,
                   xcalls, xsource, doc_id, xchunks, returned_ids, xpc, exceptIndex>>

\* embed_document raises inside the loop.
IndexEmbedRaises ==
    /\ xpc = "processed"
    /\ Cardinality(StoredOf(doc_id)) < Len(xchunks)
    /\ xpc' = "raised"
    /\ UNCHANGED <<index_fn, schema, tx_failed, next_chunk_id, doc_rows, chunk_rows, tx_docs,
                   tx_chunks, next_doc_id, xcalls, xsource, doc_id, xchunks, returned_ids,
                   exceptIndex>>

\* conn.commit(); return doc_id
IndexCommit ==
    /\ xpc = "processed"
    /\ Cardinality(StoredOf(doc_id)) = Len(xchunks)
    /\ doc_rows' = doc_rows \cup tx_docs
    /\ chunk_rows' = chunk_rows \cup tx_chunks
    /\ tx_docs' = {}
    /\ tx_chunks' = {}
    /\ returned_ids' = Append(returned_ids, [source |-> xsource, doc_id |-> doc_id])
    /\ xpc' = "returned"
    /\ UNCHANGED <<index_fn, schema, tx_failed, next_chunk_id, next_doc_id, xcalls, xsource,
                   doc_id, xchunks, exceptIndex>>

IndexNext ==
    \/ \E s \in Sources : InsertDocument(s)
    \/ InsertDocumentCommit
    \/ \E d \in DocIdArgs, idx \in ChunkIndexArgs : InsertChunk(d, idx)
    \/ \E d \in DocIdArgs, idxs \in BatchArgs : InsertChunksBatch(d, idxs)
    \/ \E d \in DocIdArgs : InsertChunkRefused(d)
    \/ InsertChunkCommit
    \/ DropTables
    \/ DropTablesCommit
    \/ CreateTables
    \/ IndexStatementRaises
    \/ \E s \in Sources : IndexInsertDocument(s)
    \/ IndexProcess
    \/ IndexProcessRaises
    \/ IndexStoreChunk
    \/ IndexEmbedRaises
    \/ IndexCommit

(***************************************************************************)
(* Chunk ordinals: the chunkers that number their chunks.                  *)
(* chunk_fixed_size cuts a text, here a sequence of blanks and letters,    *)
(* into windows of chunk_size characters that overlap; chunk_by_paragraphs *)
(* joins paragraphs, here known by the length of their stripped form, up   *)
(* to max_chunk_size characters; process_document numbers the chunks the   *)
(* library chunker returned.                                               *)
(***************************************************************************)
Strategies == {"chunk_fixed_size", "chunk_by_paragraphs", "process_document"}

Chars == {" ", "x"}

\* chunk_size and overlap of a call; the defaults are 1000 and 200.
Windows == {[chunk_size |-> 2, overlap |-> 0], [chunk_size |-> 2, overlap |-> 1],
            [chunk_size |-> 3, overlap |-> 1]}

max_chunk_size == 1500
min_chunk_size == 100

\* Lengths a stripped paragraph may have: blank, short, long.
ParaLens == {0, 60, 800}

RECURSIVE LStrip(_)
LStrip(s) == IF s # <<>> /\ Head(s) = " " THEN LStrip(Tail(s)) ELSE s

RECURSIVE RStrip(_)
RStrip(s) == IF s # <<>> /\ s[Len(s)] = " " THEN RStrip(SubSeq(s, 1, Len(s) - 1)) ELSE s

\* str.strip()
Strip(s) == RStrip(LStrip(s))

\* text[start:end]
Slice(s, start, end) == SubSeq(s, start + 1, Min(end, Len(s)))

\* index += 1 placed outside "if content".
IndexAfterEveryWindow(index, content) == index + 1

\* "if content: chunks.append(...); index += 1"
IndexAfter(index, content) == IF content # <<>> THEN index + 1 ELSE index

OrdInit ==
    /\ strategy \in Strategies
    /\ otext \in CASE strategy = "chunk_fixed_size" -> SeqsUpTo(Chars, MaxText)
                  [] strategy = "chunk_by_paragraphs" -> SeqsUpTo(ParaLens, MaxParas)
                  [] OTHER -> {[i \in 1..n |-> i] : n \in 0..MaxDocs}
    /\ window \in IF strategy = "chunk_fixed_size" THEN Windows ELSE {<<>>}
    /\ ostart = IF strategy = "chunk_by_paragraphs" THEN 1 ELSE 0
    /\ oindex = 0
    /\ obuffer = <<>>
    /\ olen = 0
    /\ ochunks = <<>>
    /\ opc = "loop"

OrdIdle ==
    /\ strategy = "off"
    /\ otext = <<>>
    /\ window = <<>>
    /\ ostart = 0
    /\ oindex = 0
    /\ obuffer = <<>>
    /\ olen = 0
    /\ ochunks = <<>>
    /\ opc = "off"

\* chunk_fixed_size: one iteration of "while start < len(text)".
OrdWindow ==
    /\ opc = "loop"
    /\ strategy = "chunk_fixed_size"
    /\ ostart < Len(otext)
    /\ LET end == ostart + window.chunk_size
           content == Strip(Slice(otext, ostart, end))
       IN /\ ochunks' = IF content # <<>>
                         THEN Append(ochunks, [content |-> content, chunk_index |-> oindex,
                                               at |-> ostart])
                         ELSE ochunks
          /\ oindex' = IndexAfter(oindex, content)
          /\ ostart' = end - window.overlap
    /\ UNCHANGED <<strategy, otext, window, obuffer, olen, opc, exceptOrd>>

\* chunk_fixed_size: the loop is over, return chunks.
OrdWindowsReturn ==
    /\ opc = "loop"
    /\ strategy = "chunk_fixed_size"
    /\ ostart >= Len(otext)
    /\ opc' = "done"
    /\ UNCHANGED <<strategy, otext, window, ostart, oindex, obuffer, olen, ochunks, exceptOrd>>

\* chunk_by_paragraphs: one iteration of "for para in paragraphs".
OrdParagraph ==
    /\ opc = "loop"
    /\ strategy = "chunk_by_paragraphs"
    /\ ostart <= Len(otext)
    /\ ostart' = ostart + 1
    /\ LET para == otext[ostart] IN
       \/ \* if not para: continue
          /\ para = 0
          /\ UNCHANGED <<oindex, obuffer, olen, ochunks>>
       \/ \* the chunk is saved and the paragraph starts the next one
          /\ para # 0
          /\ obuffer # <<>> /\ olen + para > max_chunk_size
          /\ ochunks' = Append(ochunks, [content |-> obuffer, chunk_index |-> oindex,
                                         at |-> obuffer[1]])
          /\ oindex' = oindex + 1
          /\ obuffer' = <<ostart>>
          /\ olen' = para
       \/ \* current_chunk + "\n\n" + para, or para alone
          /\ para # 0
          /\ ~(obuffer # <<>> /\ olen + para > max_chunk_size)
          /\ obuffer' = Append(obuffer, ostart)
          /\ olen' = IF obuffer # <<>> THEN olen + 2 + para ELSE para
          /\ UNCHANGED <<oindex, ochunks>>
    /\ UNCHANGED <<strategy, otext, window, opc, exceptOrd>>

\* chunk_by_paragraphs: "Don't forget the last chunk", return chunks.
OrdParagraphsReturn ==
    /\ opc = "loop"
    /\ strategy = "chunk_by_paragraphs"
    /\ ostart > Len(otext)
    /\ ochunks' = IF obuffer # <<>> /\ olen >= min_chunk_size
                  THEN Append(ochunks, [content |-> obuffer, chunk_index |-> oindex,
                                        at |-> obuffer[1]])
                  ELSE ochunks
    /\ opc' = "done"
    /\ UNCHANGED <<strategy, otext, window, ostart, oindex, obuffer, olen, exceptOrd>>

\* process_document: the chunks of the library chunker, numbered by enumerate.
OrdEnumerate ==
    /\ opc = "loop"
    /\ strategy = "process_document"
    /\ ochunks' = [i \in 1..Len(otext) |->
                      [content |-> otext[i], chunk_index |-> Enumerate(Len(otext))[i].chunk_index,
                       at |-> i]]
    /\ opc' = "done"
    /\ UNCHANGED <<strategy, otext, window, ostart, oindex, obuffer, olen, exceptOrd>>

OrdNext ==
    \/ OrdWindow
    \/ OrdWindowsReturn
    \/ OrdParagraph
    \/ OrdParagraphsReturn
    \/ OrdEnumerate

(***************************************************************************)
(* The query chain of the chatbot: stream_response runs the agent, the     *)
(* agent calls the tool search_docs, the tool calls search, which in its   *)
(* default method is hybrid_search: embed the query, then one statement    *)
(* on the index.  The hybrid searches of the document search project       *)
(* (search.py, app.py) have the same two steps and nothing above them.     *)
(***************************************************************************)
SearchFns == {"rag_chatbot.hybrid_search", "doc_search.hybrid_search",
              "hybrid_search_with_provenance"}

\* The rows a statement can return, as lists of chunk ids in rank order.
RowLists == {<<>>, <<1>>, <<2>>, <<1, 2>>, <<2, 1>>}

Intents == {"customer_support", "off_topic"}

NoOutcome == [kind |-> "none", rows |-> <<>>]
Returned(rows) == [kind |-> "returned", rows |-> rows]
Raised == [kind |-> "raised", rows |-> <<>>]

TokenEvent == [event |-> "token", sources |-> <<>>]
DoneEvent(srcs) == [event |-> "done", sources |-> srcs]
\* The failure reported as an ordinary end of stream without sources.
ErrorEventAsDone == [event |-> "done", sources |-> <<>>]
\* chat.py 68: yield {"event": "error", ...}
ErrorEvent == [event |-> "error", sources |-> <<>>]

SearchInit ==
    /\ search_fn \in SearchFns
    /\ kw_rows \in RowLists
    /\ intent = "none"
    /\ failure = "none"
    /\ search_out = NoOutcome
    /\ tool_out = NoOutcome
    /\ sources = <<>>
    /\ events = <<>>
    /\ slog = <<>>
    /\ spc = IF search_fn = "rag_chatbot.hybrid_search" THEN "classify" ELSE "search"

SearchIdle ==
    /\ search_fn = "off"
    /\ kw_rows = <<>>
    /\ intent = "none"
    /\ failure = "none"
    /\ search_out = NoOutcome
    /\ tool_out = NoOutcome
    /\ sources = <<>>
    /\ events = <<>>
    /\ slog = <<>>
    /\ spc = "off"

\* stream_response is a generator: it runs up to a yield, hands the event to
\* the consumer and goes on when the consumer asks for the next event.

\* Line 37: classify_query returns the intent.
StreamClassify ==
    /\ spc = "classify"
    /\ \E i \in Intents :
        /\ intent' = i
        /\ spc' = IF i = "off_topic" THEN "off_topic" ELSE "agent"
    /\ UNCHANGED <<search_fn, kw_rows, failure, search_out, tool_out, sources, events, slog>>
    /\ UNCHANGED exceptSearch

\* Line 37 is outside the try: when classify_query raises (the call fails, or
\* output_parsed is None and router.py 69 reads its intent), the exception
\* leaves the generator with no event and no log line of the stream.
StreamClassifyRaises ==
    /\ spc = "classify"
    /\ spc' = "escaped"
    /\ UNCHANGED <<search_fn, kw_rows, intent, failure, search_out, tool_out, sources,
                   events, slog>>
    /\ UNCHANGED exceptSearch

\* Line 41: the off-topic answer as one token event.
StreamOffTopicToken ==
    /\ spc = "off_topic"
    /\ events' = Append(events, TokenEvent)
    /\ spc' = "off_topic_said"
    /\ UNCHANGED <<search_fn, kw_rows, intent, failure, search_out, tool_out, sources, slog>>
    /\ UNCHANGED exceptSearch

\* Lines 42-43: done without sources.
StreamOffTopicDone ==
    /\ spc = "off_topic_said"
    /\ events' = Append(events, DoneEvent(<<>>))
    /\ spc' = "streamed"
    /\ UNCHANGED <<search_fn, kw_rows, intent, failure, search_out, tool_out, sources, slog>>
    /\ UNCHANGED exceptSearch

\* Lines 50-51: the model answers without calling the tool, and the stream of
\* its text opens.
StreamWithoutTool ==
    /\ spc = "agent"
    /\ spc' = "streaming"
    /\ UNCHANGED <<search_fn, kw_rows, intent, failure, search_out, tool_out, sources,
                   events, slog>>
    /\ UNCHANGED exceptSearch

\* The model calls search_docs, which calls search(query, limit=5).
ToolCall ==
    /\ spc = "agent"
    /\ slog' = Append(slog, "search_docs called")
    /\ spc' = "search"
    /\ UNCHANGED <<search_fn, kw_rows, intent, failure, search_out, tool_out, sources, events>>
    /\ UNCHANGED exceptSearch

\* get_embedding(query) / embed_query(query) returns.
SearchEmbed ==
    /\ spc = "search"
    /\ spc' = "embedded"
    /\ UNCHANGED <<search_fn, kw_rows, intent, failure, search_out, tool_out, sources, events,
                   slog>>
    /\ UNCHANGED exceptSearch

\* What the chatbot's hybrid_search logs before it raises again (lines 66-68);
\* the searches of the document search project have no handler.
LoggedBySearch(l) ==
    IF search_fn = "rag_chatbot.hybrid_search" THEN Append(l, "hybrid_search error") ELSE l

\* The embedding call raises: the exception leaves the search function.
SearchEmbedRaises ==
    /\ spc = "search"
    /\ failure' = "embedding"
    /\ search_out' = Raised
    /\ slog' = LoggedBySearch(slog)
    /\ spc' = "searched"
    /\ UNCHANGED <<search_fn, kw_rows, intent, tool_out, sources, events>>
    /\ UNCHANGED exceptSearch

\* The statement on the index returns its rows, which the function returns.
SearchIndex ==
    /\ spc = "embedded"
    /\ \E rows \in RowLists : search_out' = Returned(rows)
    /\ slog' = slog
    /\ spc' = "searched"
    /\ UNCHANGED <<search_fn, kw_rows, intent, failure, tool_out, sources, events>>
    /\ UNCHANGED exceptSearch

\* The connection or the statement raises.
SearchIndexRaises ==
    /\ spc = "embedded"
    /\ failure' = "index"
    /\ search_out' = Raised
    /\ slog' = LoggedBySearch(slog)
    /\ spc' = "searched"
    /\ UNCHANGED <<search_fn, kw_rows, intent, tool_out, sources, events>>
    /\ UNCHANGED exceptSearch

\* search_docs, lines 52-64: keep the results as sources and return them formatted.
ToolReturn ==
    /\ spc = "searched"
    /\ search_fn = "rag_chatbot.hybrid_search"
    /\ search_out.kind = "returned"
    /\ sources' = search_out.rows
    /\ tool_out' = Returned(search_out.rows)
    /\ slog' = Append(slog, "search_docs returned")
    /\ spc' = "tool"
    /\ UNCHANGED <<search_fn, kw_rows, intent, failure, search_out, events>>
    /\ UNCHANGED exceptSearch

\* search_docs, lines 65-67: log and raise again.
ToolReraise ==
    /\ spc = "searched"
    /\ search_fn = "rag_chatbot.hybrid_search"
    /\ search_out.kind = "raised"
    /\ tool_out' = Raised
    /\ slog' = Append(slog, "search_docs error")
    /\ spc' = "tool"
    /\ UNCHANGED <<search_fn, kw_rows, intent, failure, search_out, sources, events>>
    /\ UNCHANGED exceptSearch

\* Lines 50-51: the tool returned, and the stream of the answer's text opens.
StreamAfterTool ==
    /\ spc = "tool"
    /\ tool_out.kind = "returned"
    /\ spc' = "streaming"
    /\ UNCHANGED <<search_fn, kw_rows, intent, failure, search_out, tool_out, sources,
                   events, slog>>
    /\ UNCHANGED exceptSearch

\* Lines 51-53: one chunk of text, one token event.
StreamToken ==
    /\ spc = "streaming"
    /\ Len(events) < MaxChunks
    /\ events' = Append(events, TokenEvent)
    /\ UNCHANGED <<search_fn, kw_rows, intent, failure, search_out, tool_out, sources, slog,
                   spc>>
    /\ UNCHANGED exceptSearch

\* Lines 55-65: the text is over: done with deps.sources.
StreamDone ==
    /\ spc = "streaming"
    /\ events' = Append(events, DoneEvent(sources))
    /\ spc' = "streamed"
    /\ UNCHANGED <<search_fn, kw_rows, intent, failure, search_out, tool_out, sources, slog>>
    /\ UNCHANGED exceptSearch

\* The consumer closes the generator where it waits after a token event
\* (the client is gone): GeneratorExit is no Exception, nothing more is
\* yielded.
StreamClosed ==
    /\ \/ spc = "off_topic_said"
       \/ spc = "streaming" /\ events # <<>>
    /\ spc' = "closed"
    /\ UNCHANGED <<search_fn, kw_rows, intent, failure, search_out, tool_out, sources,
                   events, slog>>
    /\ UNCHANGED exceptSearch

\* stream_response, lines 66-68: the try encloses lines 50-65, so an exception
\* of rag_agent.run_stream (the run fails before any tool call, or the tool
\* raised) or of response.stream_text (before or after token events) becomes
\* an error event after the events already sent.
StreamError ==
    /\ \/ spc = "agent"
       \/ spc = "tool" /\ tool_out.kind = "raised"
       \/ spc = "streaming"
    /\ events' = Append(events, ErrorEvent)
    /\ slog' = Append(slog, "stream error")
    /\ spc' = "streamed"
    /\ UNCHANGED <<search_fn, kw_rows, intent, failure, search_out, tool_out, sources>>
    /\ UNCHANGED exceptSearch

SearchNext ==
    \/ StreamClassify
    \/ StreamClassifyRaises
    \/ StreamOffTopicToken
    \/ StreamOffTopicDone
    \/ StreamWithoutTool
    \/ ToolCall
    \/ SearchEmbed
    \/ SearchEmbedRaises
    \/ SearchIndex
    \/ SearchIndexRaises
    \/ ToolReturn
    \/ ToolReraise
    \/ StreamAfterTool
    \/ StreamToken
    \/ StreamDone
    \/ StreamClosed
    \/ StreamError

(***************************************************************************)
(* Per-candidate reranker: rerank_with_llm of 08_reranking.py.  One call   *)
(* of score_document per document; RelevanceScore admits the scores 1-10.  *)
(***************************************************************************)
TopNs == 0..(MaxDocs + 1)

\* The scored list left in the order of the candidates.
SortScoredMissing(items) == items

\* scored.sort(key=lambda x: x["rerank_score"], reverse=True)
SortScored(items) == StableSortDesc(items)

JudgeInit ==
    /\ cand_docs \in {[i \in 1..n |-> i] : n \in 0..MaxDocs}
    /\ jtop_n \in TopNs
    /\ scored = <<>>
    /\ judge_calls = <<>>
    /\ jreranked = <<>>
    /\ jpc = "loop"

JudgeIdle ==
    /\ cand_docs = <<>>
    /\ jtop_n = 0
    /\ scored = <<>>
    /\ judge_calls = <<>>
    /\ jreranked = <<>>
    /\ jpc = "off"

\* One turn of the loop: score the next document and append it with its score.
JudgeScore ==
    /\ jpc = "loop"
    /\ Len(scored) < Len(cand_docs)
    /\ \E sc \in ScoreValues :
        scored' = Append(scored, [id |-> cand_docs[Len(scored) + 1], score |-> sc])
    /\ judge_calls' = Append(judge_calls, cand_docs[Len(scored) + 1])
    /\ UNCHANGED <<cand_docs, jtop_n, jreranked, jpc>>
    /\ UNCHANGED exceptJudge

\* score_document raises (API error, no parsed output): nothing catches it.
JudgeRaises ==
    /\ jpc = "loop"
    /\ Len(scored) < Len(cand_docs)
    /\ judge_calls' = Append(judge_calls, cand_docs[Len(scored) + 1])
    /\ jpc' = "raised"
    /\ UNCHANGED <<cand_docs, jtop_n, scored, jreranked>>
    /\ UNCHANGED exceptJudge

\* After the loop: sort by score descending and return scored[:top_n].
JudgeReturn ==
    /\ jpc = "loop"
    /\ Len(scored) = Len(cand_docs)
    /\ jreranked' = Take(SortScored(scored), jtop_n)
    /\ jpc' = "done"
    /\ UNCHANGED <<cand_docs, jtop_n, scored, judge_calls>>
    /\ UNCHANGED exceptJudge

JudgeNext == JudgeScore \/ JudgeRaises \/ JudgeReturn

(***************************************************************************)
(* Timezone tools: get_current_time and convert_time of the timezone       *)
(* agent.  A time string is the tuple of its characters; int() is modelled *)
(* on the characters (an optional sign, then digits).  A zone is its UTC   *)
(* offset in minutes; America/New_York has the spring-forward day, on      *)
(* which the local times 02:00-02:59 do not exist.                         *)
(***************************************************************************)
TimeTools == {"get_current_time", "convert_time"}
TimeChars == {"0", "2", "7", ":", "-"}
TzKeys == {"UTC", "Asia/Tokyo", "America/New_York", "Not/Real"}
Days == {"winter", "spring_forward"}
Clock == {0, 719, 1439}

TimeStrings == UNION {[1..n -> TimeChars] : n \in 0..MaxTimeLen}

DigitChars == <<"0", "1", "2", "3", "4", "5", "6", "7", "8", "9">>
IsDigit(c) == \E i \in 1..10 : DigitChars[i] = c
DigitValue(c) == (CHOOSE i \in 1..10 : DigitChars[i] = c) - 1

\* str.split(":"): the parts between the colons.
RECURSIVE SplitColon(_)
SplitColon(s) ==
    IF \A i \in 1..Len(s) : s[i] # ":" THEN <<s>>
    ELSE LET c == CHOOSE i \in 1..Len(s) : s[i] = ":" /\ \A j \in 1..(i - 1) : s[j] # ":"
         IN <<SubSeq(s, 1, c - 1)>> \o SplitColon(SubSeq(s, c + 1, Len(s)))

RECURSIVE DigitsValue(_)
DigitsValue(p) ==
    IF p = <<>> THEN 0
    ELSE 10 * DigitsValue(SubSeq(p, 1, Len(p) - 1)) + DigitValue(p[Len(p)])

Unsigned(p) == IF p # <<>> /\ p[1] = "-" THEN Tail(p) ELSE p

\* int(p) accepts: an optional sign followed by at least one digit.
IsIntLiteral(p) ==
    /\ Unsigned(p) # <<>>
    /\ \A i \in 1..Len(Unsigned(p)) : IsDigit(Unsigned(p)[i])

IntValue(p) ==
    IF p[1] = "-" THEN 0 - DigitsValue(Unsigned(p)) ELSE DigitsValue(Unsigned(p))

\* hour, minute = map(int, time_str.split(":")) succeeds.
Unpacks(s) ==
    /\ Len(SplitColon(s)) = 2
    /\ IsIntLiteral(SplitColon(s)[1])
    /\ IsIntLiteral(SplitColon(s)[2])

hour(s) == IntValue(SplitColon(s)[1])
minute(s) == IntValue(SplitColon(s)[2])

\* datetime.replace(hour=..., minute=...) accepts.
ReplaceAccepts(s) == hour(s) \in 0..23 /\ minute(s) \in 0..59

\* ZoneInfo(key) finds the zone.
ZoneFound(key) == key \in {"UTC", "Asia/Tokyo", "America/New_York"}

\* utcoffset of a wall time of today in the zone (fold = 0).
OffsetOfWall(zone, day, wall) ==
    CASE zone = "UTC" -> 0
      [] zone = "Asia/Tokyo" -> 540
      [] zone = "America/New_York" ->
            IF day = "spring_forward" /\ wall >= 180 THEN 0 - 240 ELSE 0 - 300

\* utcoffset of the zone at an instant, in minutes from today's 00:00 UTC.
OffsetAtUtc(zone, day, utc) ==
    CASE zone = "UTC" -> 0
      [] zone = "Asia/Tokyo" -> 540
      [] zone = "America/New_York" ->
            IF day = "spring_forward" /\ utc >= 420 THEN 0 - 240 ELSE 0 - 300

\* The wall time in the target zone, through UTC, whatever the two zones are.
AsTimezoneAlwaysThroughUtc(wall, from, to, day) ==
    LET utc == wall - OffsetOfWall(from, day, wall)
    IN (utc + OffsetAtUtc(to, day, utc)) % 1440

\* dt.replace(tzinfo=ZoneInfo(from_tz)).astimezone(ZoneInfo(to_tz)): ZoneInfo
\* returns the same object for the same key and astimezone returns the
\* datetime itself when the target is its own tzinfo.
AsTimezone(wall, from, to, day) ==
    IF from = to THEN wall
    ELSE LET utc == wall - OffsetOfWall(from, day, wall)
         IN (utc + OffsetAtUtc(to, day, utc)) % 1440

\* strftime("%H:%M") of a wall time in minutes.
Strftime(wall) ==
    <<DigitChars[((wall \div 60) \div 10) + 1], DigitChars[((wall \div 60) % 10) + 1], ":",
      DigitChars[((wall % 60) \div 10) + 1], DigitChars[((wall % 60) % 10) + 1]>>

\* convert_time, as the parts of the string it returns.
ConvertTime(s, from, to, day) ==
    IF Unpacks(s) /\ ReplaceAccepts(s) /\ ZoneFound(from) /\ ZoneFound(to)
    THEN [kind |-> "converted", echo |-> s,
          converted |-> Strftime(AsTimezone(hour(s) * 60 + minute(s), from, to, day))]
    ELSE [kind |-> "error", echo |-> <<>>, converted |-> <<>>]

\* get_current_time, as the parts of the string it returns.
GetCurrentTime(timezone, now) ==
    IF ZoneFound(timezone)
    THEN [kind |-> "time", echo |-> <<>>, converted |-> Strftime(now)]
    ELSE [kind |-> "invalid", echo |-> <<>>, converted |-> <<>>]

NoResult == [kind |-> "none", echo |-> <<>>, converted |-> <<>>]

TimeInit ==
    /\ time_tool \in TimeTools
    /\ from_tz \in TzKeys
    /\ IF time_tool = "convert_time"
       THEN time_str \in TimeStrings /\ to_tz \in TzKeys /\ today \in Days
       ELSE time_str = <<>> /\ to_tz = "UTC" /\ today = "winter"
    /\ tool_result = NoResult
    /\ tpc = "call"

TimeIdle ==
    /\ time_tool = "off"
    /\ time_str = <<>>
    /\ from_tz = "UTC"
    /\ to_tz = "UTC"
    /\ today = "winter"
    /\ tool_result = NoResult
    /\ tpc = "off"

TimeGetCurrent ==
    /\ tpc = "call"
    /\ time_tool = "get_current_time"
    /\ \E now \in Clock : tool_result' = GetCurrentTime(from_tz, now)
    /\ tpc' = "done"
    /\ UNCHANGED <<time_tool, time_str, from_tz, to_tz, today>>
    /\ UNCHANGED exceptTime

TimeConvert ==
    /\ tpc = "call"
    /\ time_tool = "convert_time"
    /\ tool_result' = ConvertTime(time_str, from_tz, to_tz, today)
    /\ tpc' = "done"
    /\ UNCHANGED <<time_tool, time_str, from_tz, to_tz, today>>
    /\ UNCHANGED exceptTime

TimeNext == TimeGetCurrent \/ TimeConvert

(***************************************************************************)
(* Ranking reranker: rerank_with_llm and search_and_rerank of              *)
(* 05_vector_search.py.  The judge answers with passage numbers separated  *)
(* by commas; each part of the reply is a number or something int()        *)
(* rejects.                                                                *)
(***************************************************************************)
TopKs == 0..MaxDocs
JudgeNumbers == {0 - 1, 0, 1, 2, 3}
\* A part of the reply: int() accepts it and gives n, or rejects it.
JudgeTokens == {[ok |-> TRUE, n |-> k] : k \in JudgeNumbers} \cup {[ok |-> FALSE, n |-> 0]}

\* [int(x.strip()) - 1 for x in ...] raises ValueError.
ParseFails(parts) == \E i \in 1..Len(parts) : ~parts[i].ok

\* ranking: the numbers less one.
Ranking(parts) == [i \in 1..Len(parts) |-> parts[i].n - 1]

\* [chunks[i] for i in ranking if 0 <= i < len(chunks)], by positions from 1.
RECURSIVE PickInRange(_, _)
PickInRange(chs, ranking) ==
    IF ranking = <<>> THEN <<>>
    ELSE (IF 0 <= Head(ranking) /\ Head(ranking) < Len(chs)
          THEN <<chs[Head(ranking) + 1]>> ELSE <<>>)
         \o PickInRange(chs, Tail(ranking))

RankingInit ==
    /\ rchunks \in {[i \in 1..n |-> i] : n \in 0..MaxDocs}
    /\ top_k \in TopKs
    /\ judge_text = <<>>
    /\ reranked_chunks = <<>>
    /\ final_results = <<>>
    /\ kpc = "call"

RankingIdle ==
    /\ rchunks = <<>>
    /\ top_k = 0
    /\ judge_text = <<>>
    /\ reranked_chunks = <<>>
    /\ final_results = <<>>
    /\ kpc = "off"

\* search_and_rerank, lines 214-215: no results, return [].
RankingNoResults ==
    /\ kpc = "call"
    /\ rchunks = <<>>
    /\ kpc' = "done"
    /\ UNCHANGED <<rchunks, top_k, judge_text, reranked_chunks, final_results>>
    /\ UNCHANGED exceptRanking

\* client.models.generate_content(...) returns a text.
RankingJudgeReplies ==
    /\ kpc = "call"
    /\ rchunks # <<>>
    /\ judge_text' \in SeqsUpTo(JudgeTokens, MaxDocs) \ {<<>>}
    /\ kpc' = "replied"
    /\ UNCHANGED <<rchunks, top_k, reranked_chunks, final_results>>
    /\ UNCHANGED exceptRanking

\* generate_content raises, or the response has no text: outside the try.
RankingJudgeRaises ==
    /\ kpc = "call"
    /\ rchunks # <<>>
    /\ kpc' = "raised"
    /\ UNCHANGED <<rchunks, top_k, judge_text, reranked_chunks, final_results>>
    /\ UNCHANGED exceptRanking

\* Lines 193-199: parse the ranking and pick, or fall back to the given order.
RankingRerank ==
    /\ kpc = "replied"
    /\ reranked_chunks' =
         IF ParseFails(judge_text) THEN Take(rchunks, top_k)
         ELSE Take(PickInRange(rchunks, Ranking(judge_text)), top_k)
    /\ kpc' = "reranked"
    /\ UNCHANGED <<rchunks, top_k, judge_text, final_results>>
    /\ UNCHANGED exceptRanking

\* search_and_rerank, lines 222-223: each reranked chunk back to its result.
RankingMatchBack ==
    /\ kpc = "reranked"
    /\ final_results' = SelectSeq(reranked_chunks, LAMBDA c : c \in Range(rchunks))
    /\ kpc' = "done"
    /\ UNCHANGED <<rchunks, top_k, judge_text, reranked_chunks>>
    /\ UNCHANGED exceptRanking

RankingNext ==
    \/ RankingNoResults
    \/ RankingJudgeReplies
    \/ RankingJudgeRaises
    \/ RankingRerank
    \/ RankingMatchBack

(***************************************************************************)
(* SQL function hybrid_search (db.py, create_hybrid_search_function), run  *)
(* beside the Python path above on the same index answers and limit.  The  *)
(* window function numbers the rows in the order of the scan and LIMIT     *)
(* keeps the first match_count * 2 of them; the final ORDER BY score DESC  *)
(* names no second key, so rows of equal score come in any order.          *)
(***************************************************************************)
\* The functions whose Python path asks each index for limit * 2 rows.
TwiceLimitFns == {"hybrid_search_with_provenance", "search_hybrid"}

\* vector_results / semantic: SELECT id, ROW_NUMBER() OVER (ORDER BY ...) ... LIMIT match_count * 2
SqlVectorResults(match_count) == Take(vector_order, match_count * 2)

\* keyword_results / keyword
SqlKeywordResults(match_count) == Take(keyword_order, match_count * 2)

\* ---- the numbers of the two paths ----
\* Python divides and adds in binary64: 53 significant bits, rounded to
\* nearest, ties to even.  PostgreSQL divides the NUMERIC 1.0 by the BIGINT
\* rrf_k + rank as NUMERIC, which it keeps in digits of base 10000, to 20
\* decimal places; it adds exactly and casts the sum to FLOAT, the binary64
\* nearest to it.  A binary64 here is [exp, bits]: 53 bits, the first one 1,
\* read as the fraction 0.b1 b2 ... times 2^exp.
Precision == 53

\* NUMERIC 1.0 / n for n in 2..9999: 20 decimal places (16 significant digits
\* at least, counted in digits of base 10000), that is NumericDigits digits.
NBase == 10000
NumericDigits == 5

\* A function on 1..n as the list of its values.
Listed(f) == <<>> \o f

Zeros(n) == Listed([i \in 1..n |-> 0])

\* Whether a + b carries into digit i (0: out of the first digit).
CarryInto(a, b, i, base) ==
    \E j \in (i + 1)..Len(a) :
        /\ a[j] + b[j] >= base
        /\ \A c \in (i + 1)..(j - 1) : a[c] + b[c] = base - 1

CarryValue(a, b, i, base) == IF CarryInto(a, b, i, base) THEN 1 ELSE 0

\* a + b for two digit lists of one length; the first digit of the result is
\* the carry out.
SumDigits(a, b, base) ==
    Listed([i \in 1..(Len(a) + 1) |->
               IF i = 1 THEN CarryValue(a, b, 0, base)
               ELSE (a[i - 1] + b[i - 1] + CarryValue(a, b, i - 1, base)) % base])

\* Long division of r by n (0 <= r < n): what is left after i digits.
RECURSIVE Remainder(_, _, _, _)
Remainder(r, n, i, base) ==
    IF i = 0 THEN r ELSE (base * Remainder(r, n, i - 1, base)) % n

\* The i-th digit of r / n after the point.
DigitOf(r, n, i, base) == (base * Remainder(r, n, i - 1, base)) \div n

\* Binary expansions are produced Word bits at a time, Words words of them.
Word == 16
Words == 5

RECURSIVE Power(_, _)
Power(b, e) == IF e = 0 THEN 1 ELSE b * Power(b, e - 1)

\* The i-th bit of a list of words.
BitOf(words, i) ==
    (words[(i - 1) \div Word + 1] \div Power(2, Word - 1 - ((i - 1) % Word))) % 2

\* The number of zero bits before the first 1 of a list of words.
LeadingZeros(words) ==
    CHOOSE z \in 0..(Word * Len(words) - 1) :
        BitOf(words, z + 1) = 1 /\ \A i \in 1..z : BitOf(words, i) = 0

\* What m times the digits after digit i of the fraction 0.d carries into
\* digit i.
RECURSIVE CarryOfProduct(_, _, _)
CarryOfProduct(d, mult, i) ==
    IF i = Len(d) THEN 0 ELSE (d[i + 1] * mult + CarryOfProduct(d, mult, i + 1)) \div NBase

\* The fraction 0.d (digits of base NBase) times mult: the word carried out,
\* and the fraction that is left.
Shifted(d, mult) ==
    [word |-> CarryOfProduct(d, mult, 0),
     rest |-> Listed([i \in 1..Len(d) |->
                         (d[i] * mult + CarryOfProduct(d, mult, i)) % NBase])]

\* The fraction 0.d times 2^Word, c times over.
RECURSIVE ShiftedOut(_, _)
ShiftedOut(d, c) ==
    IF c = 0 THEN [word |-> 0, rest |-> d]
    ELSE Shifted(ShiftedOut(d, c - 1).rest, Power(2, Word))

\* kept + 1 when up, with the carry out of the first bit.
Incremented(kept, up) ==
    IF up THEN SumDigits(kept, Zeros(Len(kept) - 1) \o <<1>>, 2) ELSE <<0>> \o kept

\* The bits after a rounding that carried out of the first bit or did not.
Renormalized(inc) ==
    [carry |-> inc[1],
     bits |-> IF inc[1] = 1 THEN <<1>> \o Zeros(Len(inc) - 2) ELSE Tail(inc)]

\* Round bits (the first is 1, Precision + 1 of them) to Precision bits, to
\* nearest and ties to even; inexact says that something nonzero follows bits.
RoundNearestEven(bits, inexact) ==
    Renormalized(Incremented(SubSeq(bits, 1, Precision),
                             bits[Precision + 1] = 1 /\ (inexact \/ bits[Precision] = 1)))

\* The binary64 whose bits, rounded, follow z zero bits.
FloatAfter(z, rounded) == [exp |-> rounded.carry - z, bits |-> rounded.bits]

\* The binary64 nearest to a fraction below 1 whose expansion starts with z
\* zero bits in the words given; inexact says that something nonzero
\* follows the words.
FloatOfWordsAt(words, z, inexact) ==
    FloatAfter(z, RoundNearestEven(
                      Listed([i \in 1..(Precision + 1) |-> BitOf(words, z + i)]),
                      inexact \/ \E i \in (z + Precision + 2)..(Word * Len(words)) :
                                     BitOf(words, i) = 1))

FloatOfWords(words, inexact) == FloatOfWordsAt(words, LeadingZeros(words), inexact)

\* Python: 1 / n and 1.0 / n, for n >= 2
FloatRecip(n) ==
    FloatOfWords(Listed([i \in 1..Words |-> DigitOf(1, n, i, Power(2, Word))]),
                 Remainder(1, n, Words, Power(2, Word)) # 0)

\* The sum s of the bits of two floats, the first at exponent e, as a float:
\* s starts with the carry out.
FloatOfSum(s, e) ==
    FloatAfter(0 - e - s[1],
               RoundNearestEven(IF s[1] = 1 THEN s ELSE Tail(s),
                                \E i \in (Precision + 3 - s[1])..Len(s) : s[i] = 1))

\* hi + lo of two positive floats, hi.exp >= lo.exp
FloatAddOrdered(hi, lo) ==
    FloatOfSum(SumDigits(hi.bits \o Zeros(hi.exp - lo.exp + 1),
                         Zeros(hi.exp - lo.exp) \o lo.bits \o <<0>>, 2),
               hi.exp)

\* Python: a + b of two positive floats
FloatAdd(a, b) == IF a.exp >= b.exp THEN FloatAddOrdered(a, b) ELSE FloatAddOrdered(b, a)

\* a >= b for two bit lists of one length
BitsGeq(a, b) ==
    \/ a = b
    \/ \E i \in 1..Len(a) : a[i] > b[i] /\ \A j \in 1..(i - 1) : a[j] = b[j]

\* a >= b for two positive floats
FloatGeq(a, b) == a.exp > b.exp \/ (a.exp = b.exp /\ BitsGeq(a.bits, b.bits))

\* PostgreSQL: 1.0 / n as NUMERIC: the digit after the last decides the
\* rounding, half up.
NumericRecip(n) ==
    IF 2 * DigitOf(1, n, NumericDigits + 1, NBase) >= NBase
    THEN Tail(SumDigits(Listed([i \in 1..NumericDigits |-> DigitOf(1, n, i, NBase)]),
                        Zeros(NumericDigits - 1) \o <<1>>, NBase))
    ELSE Listed([i \in 1..NumericDigits |-> DigitOf(1, n, i, NBase)])

\* PostgreSQL: d::FLOAT of a NUMERIC fraction below 1 and not 0.
NumericAsFloat(d) ==
    FloatOfWords(Listed([i \in 1..Words |-> ShiftedOut(d, i).word]),
                 ShiftedOut(d, Words).rest # Zeros(NumericDigits))

\* PostgreSQL: (a + b)::FLOAT of two NUMERIC fractions.
NumericSumAsFloat(a, b) == NumericAsFloat(Tail(SumDigits(a, b, NBase)))

\* The scores of a chunk found at rank rv by the vector index and at rank rk
\* by the keyword index (0: not found), computed once for every pair of ranks.
\* Python: scores.get(id, 0) + 1 / (k + rank), the vector ranking first.
PythonScores ==
    [rv \in 0..MaxLen, rk \in 0..MaxLen |->
        IF rv = 0 /\ rk = 0 THEN [exp |-> 0, bits |-> Zeros(Precision)]
        ELSE IF rk = 0 THEN FloatRecip(K + rv)
        ELSE IF rv = 0 THEN FloatRecip(K + rk)
        ELSE FloatAdd(FloatRecip(K + rv), FloatRecip(K + rk))]

\* SQL: (COALESCE(1.0 / (rrf_k + v.rank), 0.0) + COALESCE(1.0 / (rrf_k + k.rank), 0.0))::FLOAT
SqlScores ==
    [rv \in 0..MaxLen, rk \in 0..MaxLen |->
        IF rv = 0 /\ rk = 0 THEN [exp |-> 0, bits |-> Zeros(Precision)]
        ELSE NumericSumAsFloat(IF rv = 0 THEN Zeros(NumericDigits) ELSE NumericRecip(K + rv),
                               IF rk = 0 THEN Zeros(NumericDigits) ELSE NumericRecip(K + rk))]

\* ROW_NUMBER() of an id on one side of the join, 0 when the side lacks it.
RankIn(side, id) == IF id \in Range(side) THEN IndexOf(side, id) ELSE 0

\* The score column of the SQL function for an id of the join.
SqlScore(match_count, id) ==
    SqlScores[RankIn(SqlVectorResults(match_count), id),
              RankIn(SqlKeywordResults(match_count), id)]

\* The score the Python path gives an id: the float in scores[id].
PythonScore(id) == PythonScores[RankIn(vector_results, id), RankIn(keyword_results, id)]

\* The ids of the join: COALESCE(v.id, k.id).
SqlJoined(match_count) ==
    Range(SqlVectorResults(match_count)) \cup Range(SqlKeywordResults(match_count))

\* ORDER BY score DESC: every order of the joined rows with the scores descending.
SqlOrderings(match_count) ==
    {o \in DistinctSeqs(SqlJoined(match_count), Cardinality(SqlJoined(match_count))) :
        /\ Len(o) = Cardinality(SqlJoined(match_count))
        /\ \A i \in 1..(Len(o) - 1) :
              FloatGeq(SqlScore(match_count, o[i]), SqlScore(match_count, o[i + 1]))}

SqlInit ==
    /\ HybridInit
    /\ hybrid_fn \in TwiceLimitFns
    /\ sql_rows = <<>>
    /\ sqpc = "start"

SqlIdle ==
    /\ sql_rows = <<>>
    /\ sqpc = "off"

\* SELECT * FROM hybrid_search(query, query_embedding, limit)
SqlHybridSearch ==
    /\ sqpc = "start"
    /\ \E o \in SqlOrderings(qlimit) :
          sql_rows' = [i \in 1..Min(qlimit, Len(o)) |->
                          [id |-> o[i], score |-> SqlScore(qlimit, o[i])]]
    /\ sqpc' = "done"
    /\ UNCHANGED exceptSql

SqlNext ==
    \/ HybridVectorSearch
    \/ HybridKeywordSearch
    \/ HybridFuse
    \/ HybridReturn
    \/ SqlHybridSearch

(***************************************************************************)
(* Fixed-size windows: the loop of chunk_fixed_size and chunk_by_chars,    *)
(* for any chunk_size > 0 and overlap >= 0.  With overlap >= chunk_size    *)
(* the loop has no end; the model follows it for MaxWindows iterations.    *)
(***************************************************************************)
WindowFns == {"chunk_fixed_size", "chunk_by_chars"}

WindowArgs == {[chunk_size |-> 2, overlap |-> 0], [chunk_size |-> 2, overlap |-> 1],
               [chunk_size |-> 3, overlap |-> 1], [chunk_size |-> 1, overlap |-> 1],
               [chunk_size |-> 2, overlap |-> 2], [chunk_size |-> 1, overlap |-> 2]}

MaxWindows == MaxText + 1

\* An index of a slice brought into 0..len: negative indices count from the end.
SliceIndex(i, n) == IF i < 0 THEN (IF i + n < 0 THEN 0 ELSE i + n) ELSE Min(i, n)

\* text[start:end], for any integers start and end.
PySlice(s, start, end) ==
    IF SliceIndex(start, Len(s)) >= SliceIndex(end, Len(s)) THEN <<>>
    ELSE SubSeq(s, SliceIndex(start, Len(s)) + 1, SliceIndex(end, Len(s)))

\* The next window starts where this one ends.
NextStartWithoutOverlap(end, overlap) == end

\* start = end - overlap
NextStart(end, overlap) == end - overlap

WindowInit ==
    /\ window_fn \in WindowFns
    /\ wtext \in SeqsUpTo(Chars, MaxText)
    /\ wargs \in WindowArgs
    /\ wstart = 0
    /\ windows = <<>>
    /\ wchunks = <<>>
    /\ windex = 0
    /\ wpc = "loop"

WindowIdle ==
    /\ window_fn = "off"
    /\ wtext = <<>>
    /\ wargs = <<>>
    /\ wstart = 0
    /\ windows = <<>>
    /\ wchunks = <<>>
    /\ windex = 0
    /\ wpc = "off"

\* One iteration of "while start < len(text)".
WindowStep ==
    /\ wpc = "loop"
    /\ wstart < Len(wtext)
    /\ Len(windows) < MaxWindows
    /\ LET end == wstart + wargs.chunk_size IN
          /\ windows' = Append(windows, [start |-> wstart, end |-> end])
          /\ IF window_fn = "chunk_by_chars"
             THEN /\ wchunks' = Append(wchunks, PySlice(wtext, wstart, end))
                  /\ windex' = windex
             ELSE LET content == Strip(PySlice(wtext, wstart, end)) IN
                  /\ wchunks' = IF content # <<>>
                                THEN Append(wchunks, [content |-> content,
                                                      chunk_index |-> windex])
                                ELSE wchunks
                  /\ windex' = IndexAfter(windex, content)
          /\ wstart' = NextStart(end, wargs.overlap)
    /\ UNCHANGED <<window_fn, wtext, wargs, wpc>>
    /\ UNCHANGED exceptWindow

\* The loop is over: return chunks.
WindowReturn ==
    /\ wpc = "loop"
    /\ wstart >= Len(wtext)
    /\ wpc' = "done"
    /\ UNCHANGED <<window_fn, wtext, wargs, wstart, windows, wchunks, windex>>
    /\ UNCHANGED exceptWindow

WindowNext == WindowStep \/ WindowReturn

(***************************************************************************)
(* Batch ingestion over a connection.  ingest_directory of the hr agent    *)
(* passes one connection to every ingest_document; the document search     *)
(* project opens one per document and closes it on the way out.  A         *)
(* statement can fail in the driver before it is sent (a value it cannot   *)
(* adapt), which leaves the transaction open, or in the server, which      *)
(* aborts the transaction: every later statement on the connection then    *)
(* fails until a rollback, and the code issues none.                       *)
(***************************************************************************)
ConnKinds == {"shared", "per_call"}
StatementFailures == {"driver", "server"}

\* Rows an earlier run left: none, one of s1, or one of each source.
StoredBefore ==
    {{}, {[id |-> 1, source |-> "s1", content |-> "b"]},
     {[id |-> 1, source |-> "s1", content |-> "b"], [id |-> 2, source |-> "s2", content |-> "a"]}}

ConnInit ==
    /\ conn_kind \in ConnKinds
    /\ tx_status = "idle"
    /\ inserted = 0
    /\ table0 \in StoredBefore
    /\ variant = "replace"
    /\ files \in [Sources -> Texts]
    /\ table = table0
    /\ nextId = Cardinality(table0) + 1
    /\ started = 0
    /\ ipc = [p \in Callers |-> "idle"]
    /\ source = [p \in Callers |-> "s1"]
    /\ work = [p \in Callers |-> <<>>]
    /\ snap = [p \in Callers |-> {}]
    /\ txDel = [p \in Callers |-> {}]
    /\ txIns = [p \in Callers |-> {}]
    /\ before = [p \in Callers |-> {}]
    /\ cause = [p \in Callers |-> "none"]
    /\ log = <<>>

ConnIdle ==
    /\ conn_kind = "off"
    /\ tx_status = "off"
    /\ inserted = 0
    /\ table0 = {}

\* DELETE FROM chunks WHERE source = %s, in the connection's transaction: the
\* committed rows of the source and those the transaction itself inserted.
ConnDelete ==
    /\ ipc[1] = "embedded"
    /\ tx_status \in {"idle", "open"}
    /\ txDel' = [txDel EXCEPT ![1] = @ \cup {r.id : r \in RowsOfSource(table, source[1])}]
    /\ txIns' = [txIns EXCEPT ![1] = @ \ RowsOfSource(@, source[1])]
    /\ tx_status' = "open"
    /\ inserted' = 0
    /\ ipc' = [ipc EXCEPT ![1] = "inserting"]
    /\ UNCHANGED <<variant, files, table, nextId, started, source, work, snap, before,
                   cause, log, conn_kind, table0>>
    /\ UNCHANGED exceptConn

\* The DELETE on a connection whose transaction is aborted raises.
ConnDeleteRaises ==
    /\ ipc[1] = "embedded"
    /\ tx_status = "aborted"
    /\ ipc' = [ipc EXCEPT ![1] = "raised"]
    /\ cause' = [cause EXCEPT ![1] = "delete"]
    /\ UNCHANGED <<variant, files, table, nextId, started, source, work, snap, txDel,
                   txIns, before, log, connVars>>
    /\ UNCHANGED exceptConn

\* One INSERT INTO chunks of the loop.
ConnInsert ==
    /\ ipc[1] = "inserting"
    /\ inserted < Len(work[1])
    /\ txIns' = [txIns EXCEPT ![1] = @ \cup
                    {[id |-> nextId, source |-> source[1],
                      content |-> work[1][inserted + 1]]}]
    /\ nextId' = nextId + 1
    /\ inserted' = inserted + 1
    /\ UNCHANGED <<variant, files, table, started, ipc, source, work, snap, txDel,
                   before, cause, log, conn_kind, tx_status, table0>>
    /\ UNCHANGED exceptConn

\* What is left of the transaction when a statement of the call raised: a
\* connection of its own is closed by get_connection (the server rolls back),
\* the shared one stays as it is after a driver error and is aborted after a
\* server error.
StatusAfterFailure(kind, how) ==
    IF kind = "per_call" THEN "idle"
    ELSE IF how = "driver" THEN "open" ELSE "aborted"

PendingAfterFailure(kind, how, pending) ==
    IF kind = "shared" /\ how = "driver" THEN pending ELSE {}

\* An INSERT of the loop raises; ingest_document has no handler and no rollback.
ConnInsertRaises ==
    /\ ipc[1] = "inserting"
    /\ inserted < Len(work[1])
    /\ \E how \in StatementFailures :
          /\ tx_status' = StatusAfterFailure(conn_kind, how)
          /\ txDel' = [txDel EXCEPT ![1] = PendingAfterFailure(conn_kind, how, @)]
          /\ txIns' = [txIns EXCEPT ![1] = PendingAfterFailure(conn_kind, how, @)]
    /\ ipc' = [ipc EXCEPT ![1] = "raised"]
    /\ cause' = [cause EXCEPT ![1] = "insert"]
    /\ UNCHANGED <<variant, files, table, nextId, started, source, work, snap, before,
                   log, conn_kind, inserted, table0>>
    /\ UNCHANGED exceptConn

\* conn.commit(); return len(chunks): everything pending on the connection
\* becomes durable.
ConnCommit ==
    /\ ipc[1] = "inserting"
    /\ inserted = Len(work[1])
    /\ table' = {r \in table : r.id \notin txDel[1]} \cup txIns[1]
    /\ txDel' = [txDel EXCEPT ![1] = {}]
    /\ txIns' = [txIns EXCEPT ![1] = {}]
    /\ tx_status' = "idle"
    /\ ipc' = [ipc EXCEPT ![1] = "returned"]
    /\ log' = Logged(log, [source |-> source[1], chunks |-> work[1], ret |-> Len(work[1]),
                           rows |-> ContentsById(RowsOfSource(table', source[1]))])
    /\ UNCHANGED <<variant, files, nextId, started, source, work, snap, before, cause,
                   conn_kind, inserted, table0>>
    /\ UNCHANGED exceptConn

\* main: conn.close() after the batch; what is still pending is rolled back.
ConnClose ==
    /\ bpc = "done"
    /\ tx_status # "closed"
    /\ tx_status' = "closed"
    /\ txDel' = [txDel EXCEPT ![1] = {}]
    /\ txIns' = [txIns EXCEPT ![1] = {}]
    /\ UNCHANGED <<variant, files, table, nextId, started, ipc, source, work, snap, before,
                   cause, log, conn_kind, inserted, table0>>
    /\ UNCHANGED exceptConn

ConnNext ==
    \/ DirAttempt
    \/ IngestParse(1)
    \/ IngestParseRaises(1)
    \/ IngestEmbed(1)
    \/ IngestEmbedRaises(1)
    \/ ConnDelete
    \/ ConnDeleteRaises
    \/ ConnInsert
    \/ ConnInsertRaises
    \/ ConnCommit
    \/ DirTally
    \/ DirCatch
    \/ DirReturn
    \/ ConnClose

(***************************************************************************)
(* Specifications: one per component.                                      *)
(***************************************************************************)
CoreIdle ==
    FuseIdle /\ ChunkIdle /\ RerankIdle /\ DiverseIdle /\ IngestIdle /\ DirIdle /\ HybridIdle
    /\ IndexIdle /\ OrdIdle

OuterIdle == SearchIdle /\ JudgeIdle /\ TimeIdle /\ RankingIdle /\ SqlIdle /\ WindowIdle /\ ConnIdle

InitSearch == CoreIdle /\ SearchInit /\ JudgeIdle /\ TimeIdle /\ RankingIdle /\ SqlIdle /\ WindowIdle /\ ConnIdle

SpecSearch == InitSearch /\ [][SearchNext]_vars

InitFuse ==
    FuseInit /\ ChunkIdle /\ RerankIdle /\ DiverseIdle /\ IngestIdle /\ DirIdle /\ HybridIdle
    /\ IndexIdle /\ OrdIdle /\ OuterIdle

SpecFuse == InitFuse /\ [][FuseNext]_vars

InitChunk ==
    FuseIdle /\ ChunkInit /\ RerankIdle /\ DiverseIdle /\ IngestIdle /\ DirIdle /\ HybridIdle
    /\ IndexIdle /\ OrdIdle /\ OuterIdle

SpecChunk == InitChunk /\ [][ChunkNext]_vars

InitRerank ==
    FuseIdle /\ ChunkIdle /\ RerankInit /\ DiverseIdle /\ IngestIdle /\ DirIdle /\ HybridIdle
    /\ IndexIdle /\ OrdIdle /\ OuterIdle

SpecRerank == InitRerank /\ [][RerankNext]_vars

InitDiverse ==
    FuseIdle /\ ChunkIdle /\ RerankIdle /\ DiverseInit /\ IngestIdle /\ DirIdle /\ HybridIdle
    /\ IndexIdle /\ OrdIdle /\ OuterIdle

SpecDiverse == InitDiverse /\ [][DiverseNext]_vars

InitIngest ==
    FuseIdle /\ ChunkIdle /\ RerankIdle /\ DiverseIdle /\ IngestInit /\ DirIdle /\ HybridIdle
    /\ IndexIdle /\ OrdIdle /\ OuterIdle

SpecIngestSeq == InitIngest /\ [][IngestSeqNext]_vars

SpecIngestConc == InitIngest /\ [][IngestConcNext]_vars

InitDir ==
    FuseIdle /\ ChunkIdle /\ RerankIdle /\ DiverseIdle /\ IngestInit /\ DirInit /\ HybridIdle
    /\ IndexIdle /\ OrdIdle /\ OuterIdle

SpecDir == InitDir /\ [][DirNext]_vars

InitText ==
    FuseIdle /\ TextInit /\ RerankIdle /\ DiverseIdle /\ DirIdle /\ HybridIdle
    /\ IndexIdle /\ OrdIdle /\ OuterIdle

SpecText == InitText /\ [][TextNext]_vars

InitHybrid ==
    FuseIdle /\ ChunkIdle /\ RerankIdle /\ DiverseIdle /\ IngestIdle /\ DirIdle /\ HybridInit
    /\ IndexIdle /\ OrdIdle /\ OuterIdle

SpecHybrid == InitHybrid /\ [][HybridNext]_vars

InitIndex ==
    FuseIdle /\ ChunkIdle /\ RerankIdle /\ DiverseIdle /\ IngestIdle /\ DirIdle /\ HybridIdle
    /\ IndexInit /\ OrdIdle /\ OuterIdle

SpecIndex == InitIndex /\ [][IndexNext]_vars

InitOrd ==
    FuseIdle /\ ChunkIdle /\ RerankIdle /\ DiverseIdle /\ IngestIdle /\ DirIdle /\ HybridIdle
    /\ IndexIdle /\ OrdInit /\ OuterIdle

SpecOrd == InitOrd /\ [][OrdNext]_vars

InitJudge == CoreIdle /\ SearchIdle /\ JudgeInit /\ TimeIdle /\ RankingIdle /\ SqlIdle /\ WindowIdle /\ ConnIdle

SpecJudge == InitJudge /\ [][JudgeNext]_vars

InitTime == CoreIdle /\ SearchIdle /\ JudgeIdle /\ TimeInit /\ RankingIdle /\ SqlIdle /\ WindowIdle /\ ConnIdle

SpecTime == InitTime /\ [][TimeNext]_vars

InitRanking == CoreIdle /\ SearchIdle /\ JudgeIdle /\ TimeIdle /\ RankingInit /\ SqlIdle /\ WindowIdle /\ ConnIdle

SpecRanking == InitRanking /\ [][RankingNext]_vars

InitSql ==
    FuseIdle /\ ChunkIdle /\ RerankIdle /\ DiverseIdle /\ IngestIdle /\ DirIdle /\ IndexIdle
    /\ OrdIdle /\ SearchIdle /\ JudgeIdle /\ TimeIdle /\ RankingIdle /\ WindowIdle /\ ConnIdle
    /\ SqlInit

SpecSql == InitSql /\ [][SqlNext]_vars

InitConn ==
    ConnInit /\ DirInit
    /\ FuseIdle /\ ChunkIdle /\ RerankIdle /\ DiverseIdle /\ HybridIdle /\ IndexIdle /\ OrdIdle
    /\ SearchIdle /\ JudgeIdle /\ TimeIdle /\ RankingIdle /\ SqlIdle /\ WindowIdle

SpecConn == InitConn /\ [][ConnNext]_vars

InitWindow == CoreIdle /\ SearchIdle /\ JudgeIdle /\ TimeIdle /\ RankingIdle /\ SqlIdle /\ WindowInit /\ ConnIdle

\* The loop is a sequential program: a step that can be taken is taken.
SpecWindow == InitWindow /\ [][WindowNext]_vars /\ WF_vars(WindowNext)

(***************************************************************************)
(* Claims about the fuser (checked under SpecFuse).                        *)
(***************************************************************************)
RankOf(ranking, id) == CHOOSE r \in 1..Len(ranking) : ranking[r] = id

\* The sum, over the lists among the first n that contain id, of 1/(K + rank).
RECURSIVE ReciprocalRankSum(_, _)
ReciprocalRankSum(id, n) ==
    IF n = 0 THEN 0
    ELSE ReciprocalRankSum(id, n - 1)
         + (IF id \in Range(rankings[n])
            THEN Denominator \div (K + RankOf(rankings[n], id))
            ELSE 0)

FusedIds == {combined[i].id : i \in 1..Len(combined)}

FusedScore(id) == combined[CHOOSE i \in 1..Len(combined) : combined[i].id = id].score

FusedPlace(id) == CHOOSE i \in 1..Len(combined) : combined[i].id = id

ExampleRankings == <<<<1, 2, 3>>, <<2, 1, 4>>>>

\* C1: the fused score of every id is the sum, over exactly the lists that
\* contain it, of 1/(k + rank), rank being its 1-based position; for
\* [A,B,C] and [B,A,D] with k = 60, A = B = 1/61 + 1/62 and C = D = 1/63.
RRFScoreIsReciprocalRankSum ==
    fpc = "done" =>
        /\ \A i \in 1..Len(combined) :
              combined[i].score = ReciprocalRankSum(combined[i].id, Len(rankings))
        /\ rankings = ExampleRankings =>
              /\ FusedIds = {1, 2, 3, 4}
              /\ FusedScore(1) = Denominator \div 61 + Denominator \div 62
              /\ FusedScore(2) = Denominator \div 61 + Denominator \div 62
              /\ FusedScore(3) = Denominator \div 63
              /\ FusedScore(4) = Denominator \div 63

RRFExampleFused ==
    /\ fpc = "done"
    /\ rankings = ExampleRankings
    /\ Len(combined) = 4

\* C2: ids of equal fused score come out in ascending id order, whatever the
\* order in which the lists were given or the ids first seen.
FusionTieBreakAscendingId ==
    fpc = "done" =>
        \A i, j \in 1..Len(combined) :
            (i < j /\ combined[i].score = combined[j].score)
                => combined[i].id < combined[j].id

\* C9: the output holds every id of the input lists exactly once, no other
\* id, and is sorted by fused score descending.
FusionOutputCompleteAndSorted ==
    fpc = "done" =>
        /\ FusedIds = UNION {Range(rankings[l]) : l \in 1..Len(rankings)}
        /\ Cardinality(FusedIds) = Len(combined)
        /\ \A i \in 1..(Len(combined) - 1) : combined[i].score >= combined[i + 1].score

FusionOutputOfOverlappingLists ==
    /\ fpc = "done"
    /\ Len(combined) >= 3
    /\ \E id \in Ids : id \in Range(rankings[1]) /\ id \in Range(rankings[2])
    /\ \E i \in 1..(Len(combined) - 1) : combined[i].score > combined[i + 1].score
    /\ scores # combined

InOneListOnly(id) ==
    Cardinality({l \in 1..Len(rankings) : id \in Range(rankings[l])}) = 1

TopOfBoth(id) ==
    \A l \in 1..Len(rankings) : rankings[l] # <<>> /\ rankings[l][1] = id

\* C10: with k = 60 an id at rank 1 in both lists has fused score 2/61,
\* strictly greater than that of any id found in one list only, and comes
\* before it in the output.
BothListsDominance ==
    fpc = "done" =>
        \A a \in Ids : TopOfBoth(a) =>
            /\ FusedScore(a) = 2 * (Denominator \div 61)
            /\ \A b \in FusedIds : InOneListOnly(b) =>
                  /\ FusedScore(a) > FusedScore(b)
                  /\ FusedPlace(a) < FusedPlace(b)

TopOfBothFusedWithSingles ==
    /\ fpc = "done"
    /\ \E a \in Ids : TopOfBoth(a)
    /\ \E b, c \in FusedIds :
          /\ b # c /\ InOneListOnly(b) /\ InOneListOnly(c)
          /\ b \in Range(rankings[1]) /\ c \in Range(rankings[2])

(***************************************************************************)
(* Claims about the chunker (checked under SpecChunk).                     *)
(***************************************************************************)
\* C4: every chunk but the document's last has
\* MIN_CHUNK_TOKENS <= token_count <= MAX_CHUNK_TOKENS.
ChunkBounds ==
    cpc = "done" =>
        \A i \in 1..(Len(chunks) - 1) :
            /\ MIN_CHUNK_TOKENS <= chunks[i].tokens
            /\ chunks[i].tokens <= MAX_CHUNK_TOKENS

ParasOf(c) == Range(c.paras)

\* C11: a paragraph whose token count alone exceeds MAX_CHUNK_TOKENS is split,
\* so that every chunk derived from it has at most MAX_CHUNK_TOKENS tokens: no
\* emitted chunk holds an unsplit paragraph larger than MAX_CHUNK_TOKENS.
OversizedParagraphIsSplit ==
    cpc = "done" =>
        \A i \in 1..Len(chunks) :
            (\E k \in ParasOf(chunks[i]) : paragraphs[k] > MAX_CHUNK_TOKENS)
                => chunks[i].tokens <= MAX_CHUNK_TOKENS

\* C12: when the paragraphs are consumed, a buffer of fewer than
\* MIN_CHUNK_TOKENS tokens is appended to the last emitted chunk if there is
\* one (the number of chunks stays), any other buffer is emitted as a new
\* final chunk; the buffer's text is never discarded.
TrailingBufferMergedOrEmitted ==
    [][(cpc = "loop" /\ cpc' = "done" /\ current_chunk # <<>>) =>
          IF current_tokens < MIN_CHUNK_TOKENS /\ chunks # <<>>
          THEN /\ Len(chunks') = Len(chunks)
               /\ SubSeq(chunks', 1, Len(chunks) - 1) = SubSeq(chunks, 1, Len(chunks) - 1)
               /\ chunks'[Len(chunks)].paras = chunks[Len(chunks)].paras \o current_chunk
          ELSE chunks' = Append(chunks, [paras |-> current_chunk,
                                         tokens |-> current_tokens])]_vars

\* The paragraphs read back from the chunks, in the order of the chunks.
RECURSIVE ParasRead(_)
ParasRead(cs) == IF cs = <<>> THEN <<>> ELSE Head(cs).paras \o ParasRead(Tail(cs))

\* The paragraphs of the text that are not blank, in the order of the text.
ParasOfText ==
    SelectSeq([i \in 1..Len(paragraphs) |-> i], LAMBDA i : ~Blank(paragraphs[i]))

\* C27: the non-empty paragraphs read from the returned chunks, in order, are
\* the non-empty paragraphs of the text, in order: every paragraph is in
\* exactly one chunk, none is lost, none is repeated.
ChunkingKeepsEveryParagraph ==
    cpc = "done" => ParasRead(chunks) = ParasOfText

(***************************************************************************)
(* Claims about the batched reranker (checked under SpecRerank).           *)
(***************************************************************************)
\* C5: a score list whose length is not len(candidates) makes rerank return
\* the candidates in their pre-rerank order, none dropped for it.
RerankFallsBackOnMalformedScores ==
    (rpc = "done" /\ Len(reply) # Len(documents))
        => reranked = Take(documents, top_n)

(***************************************************************************)
(* Claims about diverse search (checked under SpecDiverse).                *)
(***************************************************************************)
ChunksOfDoc(d) == {id \in ChunkIds : corpus[id].doc = d}

\* C6: no document contributes more than per_document chunks to the result,
\* even when all of its chunks are the nearest ones.
DiversityCap ==
    dpc = "done" =>
        \A d \in DocIds :
            Cardinality({i \in 1..Len(diverse) : corpus[diverse[i]].doc = d}) <= per_document

\* A document with more chunks than the cap, every one of them nearer than
\* any other document's, in a result with room for all of them.
DiversityCapBinds ==
    /\ dpc = "done"
    /\ \E d \in DocIds :
          /\ Cardinality(ChunksOfDoc(d)) > per_document
          /\ limit > per_document
          /\ ChunkIds \ ChunksOfDoc(d) # {}
          /\ \A a \in ChunksOfDoc(d), b \in ChunkIds \ ChunksOfDoc(d) :
                corpus[a].distance < corpus[b].distance
          /\ Cardinality({i \in 1..Len(diverse) : corpus[diverse[i]].doc = d}) = per_document
          /\ \E i \in 1..Len(diverse) : corpus[diverse[i]].doc # d

(***************************************************************************)
(* Claims about ingestion (SpecIngestSeq: one caller; SpecIngestConc: two  *)
(* callers at once).                                                       *)
(***************************************************************************)
\* C3: two calls in a row on the same unchanged source return the same
\* chunks_created, and after the second the source's rows have the contents
\* they had after the first, as many rows as chunks_created (no duplicates).
IdempotentReingestion ==
    (Len(log) = 2 /\ log[1].source = log[2].source /\ log[1].chunks = log[2].chunks)
        => /\ log[2].ret = log[1].ret
           /\ log[2].rows = log[1].rows
           /\ Len(log[2].rows) = log[2].ret

\* C7: when the embedder fails, the call is aborted with the table exactly as
\* it was before the call and nothing of the call pending.
EmbeddingFailureLeavesStoreUnchanged ==
    \A p \in Callers :
        (ipc[p] = "raised" /\ cause[p] = "embed")
            => /\ table = before[p]
               /\ txDel[p] = {}
               /\ txIns[p] = {}

EmbeddingFailedOnStoredSource ==
    /\ ipc[1] = "raised"
    /\ cause[1] = "embed"
    /\ RowsOfSource(table, source[1]) # {}
    /\ ContentsById(RowsOfSource(table, source[1])) # work[1]

\* C8: two ingestions of the same source at once leave, under every
\* interleaving of their deletes and inserts, the rows of a single ingestion.
ConcurrentSameSourceIngestIsSingle ==
    ( /\ variant = "replace"
      /\ started = 2
      /\ \A p \in Callers : ipc[p] = "returned"
      /\ source[1] = source[2]
      /\ work[1] = work[2] )
        => ContentsById(RowsOfSource(table, source[1])) = work[1]

\* C13: when ingest_document(s) has returned, the stored rows of s are
\* exactly the chunks the call produced, none of an earlier ingestion left,
\* and the rows of every other source are the ones the call found.
FullReplaceWithFrame ==
    ipc[1] = "returned" =>
        /\ ContentsById(RowsOfSource(table, source[1])) = work[1]
        /\ \A s \in Sources \ {source[1]} :
              RowsOfSource(table, s) = RowsOfSource(before[1], s)

(***************************************************************************)
(* Claims about the ingestion of a text (checked under SpecText).          *)
(***************************************************************************)
\* C20: the chunker returns no chunk for a text that is empty or has blank
\* paragraphs only, and does not raise; ingest_document of a document that
\* parses to such a text returns 0, does not raise, and leaves the table as
\* it found it.
EmptyTextYieldsNoChunks ==
    (\A i \in 1..Len(paragraphs) : paragraphs[i] = 0) =>
        /\ cpc = "done" => chunks = <<>>
        /\ ipc[1] # "raised"
        /\ ipc[1] = "returned" =>
              /\ log[Len(log)].ret = 0
              /\ table = before[1]
              /\ txDel[1] = {} /\ txIns[1] = {}

\* Two blank paragraphs chunked, and ingested over a stored row.
BlankTextChunkedAndIngested ==
    /\ Len(paragraphs) = 2
    /\ paragraphs[1] = 0 /\ paragraphs[2] = 0
    /\ cpc = "done"
    /\ ipc[1] = "returned"
    /\ table # {}

(***************************************************************************)
(* Claims about batch ingestion (checked under SpecDir).                   *)
(***************************************************************************)
RECURSIVE ChunksOfSuccessful(_)
ChunksOfSuccessful(as) ==
    IF as = <<>> THEN 0
    ELSE (IF Head(as).raised THEN 0 ELSE Head(as).ret) + ChunksOfSuccessful(Tail(as))

\* C14: ingest_directory tries every discovered file, also after a file
\* failed, and returns a summary with success + failed = total, failed the
\* number of files whose ingest_document raised and chunks the sum of the
\* counts the successful ones returned.
BatchSkipsFailuresAndSumsUp ==
    bpc \in {"done", "raised"} =>
        /\ Len(attempts) = Len(discovered)
        /\ bpc = "done"
        /\ DOMAIN summary = {"total", "success", "failed", "chunks"}
        /\ summary.total = Len(discovered)
        /\ summary.success + summary.failed = summary.total
        /\ summary.failed = Cardinality({i \in 1..Len(attempts) : attempts[i].raised})
        /\ summary.chunks = ChunksOfSuccessful(attempts)

(***************************************************************************)
(* Claims about the hybrid query (checked under SpecHybrid).               *)
(***************************************************************************)
CandidateIds == Range(vector_results) \cup Range(keyword_results)

ResultIds == [i \in 1..Len(results) |-> results[i].id]

FusedRankingIds == [i \in 1..Len(hscores) |-> Sorted(hscores)[i].id]

\* The first limit entries of the fused ranking come back, as many as
\* min(limit, number of distinct candidate ids).
ReturnsFirstOfFused ==
    /\ ResultIds = Take(FusedRankingIds, qlimit)
    /\ Len(results) = Min(qlimit, Cardinality(CandidateIds))
    /\ Len(results) <= qlimit

\* C15 as stated: with limit L each index is asked for exactly 2 * L
\* candidates, and the first L entries of the fused ranking come back.
HybridAsksTwiceLimitAndTruncates ==
    hpc = "done" =>
        /\ asked_vector = 2 * qlimit
        /\ asked_keyword = 2 * qlimit
        /\ ReturnsFirstOfFused

\* C15 amended: both indexes are asked for the same number of candidates,
\* 2 * L in hybrid_search_with_provenance and in the search_hybrid without a
\* candidates argument, the candidates argument whatever L in the
\* search_hybrid that has one; the first L entries of the fused ranking come
\* back, min(L, number of distinct candidate ids) of them, never more than L.
HybridAsksBreadthAndTruncates ==
    hpc = "done" =>
        /\ asked_vector = asked_keyword
        /\ asked_vector = IF hybrid_fn = "search_hybrid_candidates"
                          THEN candidates ELSE 2 * qlimit
        /\ ReturnsFirstOfFused

\* A search_hybrid with candidates = 3 and limit = 1: each index returned its
\* three candidates, and one row of the fused ranking came back.
HybridCutsFusedToLimit ==
    /\ hpc = "done"
    /\ hybrid_fn = "search_hybrid_candidates"
    /\ candidates = 3 /\ qlimit = 1
    /\ Len(vector_results) = 3 /\ Len(keyword_results) = 3
    /\ Cardinality(CandidateIds) > qlimit
    /\ Len(results) = qlimit

\* C16: a result is tagged "both" exactly when its id is in the vector and in
\* the keyword candidate list, "vector" exactly when it is in the vector list
\* only, "keyword" exactly when it is in the keyword list only; every result
\* has one of the three tags.
ProvenanceTagsMatchCandidateLists ==
    (hpc = "done" /\ hybrid_fn = "hybrid_search_with_provenance") =>
        \A i \in 1..Len(results) :
            LET id == results[i].id
                tag == results[i].found_by
                in_v == id \in Range(vector_results)
                in_k == id \in Range(keyword_results)
            IN /\ tag \in {"both", "vector", "keyword"}
               /\ (tag = "both") <=> (in_v /\ in_k)
               /\ (tag = "vector") <=> (in_v /\ ~in_k)
               /\ (tag = "keyword") <=> (~in_v /\ in_k)

\* A result list that carries all three tags.
AllThreeProvenancesReturned ==
    /\ hpc = "done"
    /\ hybrid_fn = "hybrid_search_with_provenance"
    /\ {results[i].found_by : i \in 1..Len(results)} = {"both", "vector", "keyword"}

\* C17: every hybrid result tagged "vector" is among the rows vector-only
\* search returns at breadth 2 * limit, and every result tagged "keyword"
\* among those keyword-only search returns at that breadth.
TaggedResultsWithinSingleModes ==
    (hpc = "done" /\ hybrid_fn = "hybrid_search_with_provenance") =>
        \A i \in 1..Len(results) :
            /\ results[i].found_by = "vector"
                  => results[i].id \in Range(VectorSearch(2 * qlimit))
            /\ results[i].found_by = "keyword"
                  => results[i].id \in Range(KeywordSearch(2 * qlimit))

\* limit = 1 over rankings of three ids each: the single modes return two
\* rows each, not everything, and the hybrid result is tagged "vector".
VectorTaggedResultWithNarrowModes ==
    /\ hpc = "done"
    /\ hybrid_fn = "hybrid_search_with_provenance"
    /\ qlimit = 1
    /\ Len(vector_order) = 3 /\ Len(keyword_order) = 3
    /\ Len(results) = 1
    /\ results[1].found_by = "vector"

(***************************************************************************)
(* Claims about the documents table (checked under SpecIndex).             *)
(***************************************************************************)
\* C18: there is at most one documents row per source: the first ingestion
\* of a source creates it, a later ingestion of the same source gets the id
\* of that row.
OneDocumentPerSource ==
    /\ \A a, b \in doc_rows : a.source = b.source => a.id = b.id
    /\ \A i, j \in 1..Len(returned_ids) :
          returned_ids[i].source = returned_ids[j].source
              => returned_ids[i].doc_id = returned_ids[j].doc_id

(***************************************************************************)
(* Claims about chunk ordinals (checked under SpecOrd).                    *)
(***************************************************************************)
\* C19: the chunk_index values of a document are 0, 1, ..., n - 1, each once,
\* in the order in which the chunks start in the text, also when empty
\* windows or blank paragraphs were skipped.
ChunkOrdinalsContiguous ==
    opc = "done" =>
        \A i \in 1..Len(ochunks) :
            /\ ochunks[i].chunk_index = i - 1
            /\ i < Len(ochunks) => ochunks[i].at < ochunks[i + 1].at

\* Fixed-size windows with an all-blank window skipped between two chunks.
OrdinalsAcrossSkippedWindow ==
    /\ opc = "done"
    /\ strategy = "chunk_fixed_size"
    /\ \E i \in 1..(Len(ochunks) - 1) :
          ochunks[i + 1].at - ochunks[i].at > window.chunk_size - window.overlap


(***************************************************************************)
(* Claims about the query chain.                                           *)
(***************************************************************************)
\* Where the chain is once the tool has ended.
AfterTool == {"tool", "streaming", "streamed", "closed"}

SearchFinished == spc \in ({"searched"} \cup AfterTool) /\ search_out.kind # "none"

\* C21: When embedding the query fails in hybrid mode, the search does not
\* raise: it returns the rows keyword mode returns for the same query and limit.
EmbeddingFailureDegradesToKeyword ==
    (SearchFinished /\ failure = "embedding")
        => search_out = Returned(kw_rows)

EventNames == {events[i].event : i \in 1..Len(events)}

\* C22: The search function returns an empty list only when the embedding and
\* the statement both succeeded; when either failed, the search function and
\* search_docs raise, and the event stream carries an error event and no done
\* event, so that no layer reports a failure as an empty result.
EmptyDistinctFromFailed ==
    /\ (search_out.kind = "returned") => failure = "none"
    /\ (SearchFinished /\ failure # "none") => search_out = Raised
    /\ (spc \in AfterTool /\ failure # "none") => tool_out = Raised
    /\ (spc \in AfterTool /\ failure = "none" /\ search_out.kind = "returned")
            => /\ tool_out = Returned(search_out.rows)
               /\ sources = search_out.rows
    /\ (spc \in {"streamed", "closed"} /\ failure # "none") => EventNames = {"error"}
    /\ failure # "none" => EventNames \subseteq {"error"}
    /\ "error" \in EventNames => "done" \notin EventNames

\* A chatbot query whose statement on the index failed has reached the end of
\* the event stream.
FailedQueryStreamed ==
    /\ spc = "streamed"
    /\ failure = "index"
    /\ search_fn = "rag_chatbot.hybrid_search"


(***************************************************************************)
(* Claims about the per-candidate reranker.                                *)
(***************************************************************************)
\* C23: rerank_with_llm calls the judge exactly once for each candidate, and
\* returns min(top_n, len(documents)) of the candidates, each with the score
\* the judge gave it, no candidate twice, in descending order of score.
PerCandidateRerank ==
    jpc = "done" =>
        /\ judge_calls = cand_docs
        /\ Len(jreranked) = Min(jtop_n, Len(cand_docs))
        /\ \A i \in 1..Len(jreranked) :
            \E j \in 1..Len(scored) : scored[j] = jreranked[i]
        /\ \A i, j \in 1..Len(jreranked) :
            /\ (i # j) => jreranked[i].id # jreranked[j].id
            /\ (i < j) => jreranked[i].score >= jreranked[j].score
        /\ \A i \in 1..Len(jreranked) : \A j \in 1..Len(scored) :
            (\A h \in 1..Len(jreranked) : jreranked[h].id # scored[j].id)
                => scored[j].score <= jreranked[i].score

\* Three candidates scored out of order were cut to the best two.
RerankedOutOfOrderAndCut ==
    /\ jpc = "done"
    /\ Len(cand_docs) = 3
    /\ jtop_n = 2
    /\ scored[1].score < scored[2].score
    /\ scored[2].score < scored[3].score


(***************************************************************************)
(* Claims about the timezone tools.                                        *)
(***************************************************************************)
\* A time in HH:MM format (24-hour): two digits, a colon, two digits, the hour
\* at most 23 and the minute at most 59.
IsHHMM(s) ==
    /\ Len(s) = 5
    /\ s[3] = ":"
    /\ \A i \in {1, 2, 4, 5} : IsDigit(s[i])
    /\ DigitsValue(SubSeq(s, 1, 2)) <= 23
    /\ DigitsValue(SubSeq(s, 4, 5)) <= 59

\* C24: The tools return their errors: get_current_time answers an unknown
\* timezone with its Invalid message, and convert_time answers a time string
\* that is not HH:MM, or an unknown timezone, with its error string.
ToolErrorsAreValues ==
    tpc = "done" =>
        /\ tool_result.kind \in {"time", "invalid", "converted", "error"}
        /\ (time_tool = "get_current_time" /\ ~ZoneFound(from_tz))
                => tool_result.kind = "invalid"
        /\ (time_tool = "convert_time"
                /\ (~IsHHMM(time_str) \/ ~ZoneFound(from_tz) \/ ~ZoneFound(to_tz)))
                => tool_result.kind = "error"

\* C25: convert_time of a valid HH:MM time between a timezone and itself
\* reports the time it was given.
SameZoneConversionIsIdentity ==
    (tpc = "done" /\ time_tool = "convert_time" /\ IsHHMM(time_str)
        /\ ZoneFound(from_tz) /\ from_tz = to_tz)
        => /\ tool_result.kind = "converted"
           /\ tool_result.echo = time_str
           /\ tool_result.converted = time_str

\* 02:20 on the spring-forward day, a wall time New York skips, was converted
\* from New York to New York.
SkippedWallTimeConvertedToItself ==
    /\ tpc = "done"
    /\ time_tool = "convert_time"
    /\ time_str = <<"0", "2", ":", "2", "0">>
    /\ from_tz = "America/New_York"
    /\ to_tz = "America/New_York"
    /\ today = "spring_forward"


(***************************************************************************)
(* Claims about the ranking reranker.                                      *)
(***************************************************************************)
WellFormedRanking(out) ==
    /\ Range(out) \subseteq Range(rchunks)
    /\ \A i, j \in 1..Len(out) : (i # j) => out[i] # out[j]
    /\ Len(out) <= top_k

\* C29: Whatever numbers the judge returns, the lists rerank_with_llm and
\* search_and_rerank return hold only input candidates, none of them twice,
\* and at most top_k of them.
RankingOutputWellFormed ==
    /\ (kpc \in {"reranked", "done"}) => WellFormedRanking(reranked_chunks)
    /\ (kpc = "done") => WellFormedRanking(final_results)


(***************************************************************************)
(* Claims about the SQL function and the Python path.                      *)
(***************************************************************************)
PythonTop == Take(Sorted(hscores), qlimit)

\* C28: For the same index answers and limit, the SQL function returns the
\* ids the Python path returns, in the same order, with the same RRF scores.
SqlAgreesWithPython ==
    (sqpc = "done" /\ hpc = "done") =>
        /\ Len(sql_rows) = Len(results)
        /\ \A i \in 1..Len(sql_rows) :
              /\ sql_rows[i].id = results[i].id
              /\ sql_rows[i].score = PythonScore(PythonTop[i].id)


(***************************************************************************)
(* Claims about the fixed-size windows.                                    *)
(***************************************************************************)
Advancing == wargs.overlap < wargs.chunk_size

\* Every position of the text lies in a window.
Covered ==
    \A c \in 0..(Len(wtext) - 1) :
        \E i \in 1..Len(windows) : windows[i].start <= c /\ c < windows[i].end

WindowsInStep ==
    /\ (wpc # "off" /\ Advancing) =>
          /\ \A i \in 1..(Len(windows) - 1) :
                windows[i + 1].start = windows[i].start + wargs.chunk_size - wargs.overlap
          /\ (wpc = "done") => Covered
    /\ (wpc # "off" /\ ~Advancing /\ wtext # <<>>) =>
          /\ wpc # "done"
          /\ wstart <= 0
          /\ \A i \in 1..(Len(windows) - 1) : windows[i + 1].start <= windows[i].start

\* C30: With 0 <= overlap < chunk_size the loop of the fixed-size chunker
\* ends, each window starts chunk_size - overlap after the one before, and the
\* windows cover every position of the text; with overlap >= chunk_size and a
\* text that is not empty the start never advances and the loop never ends.
FixedSizeTerminatesAndCovers ==
    /\ []WindowsInStep
    /\ (wpc = "loop" /\ Advancing) ~> (wpc = "done")

\* A text of full length was cut into overlapping windows of three characters.
OverlappingWindowsReturned ==
    /\ wpc = "done"
    /\ wargs = [chunk_size |-> 3, overlap |-> 1]
    /\ Len(wtext) = MaxText
    /\ Len(windows) >= 2


(***************************************************************************)
(* Claims about the connection of a batch.                                 *)
(***************************************************************************)
FailedSources == {attempts[i].source : i \in {j \in 1..Len(attempts) : attempts[j].raised}}

\* C26: when ingesting a source fails, also after its DELETE and some of its
\* INSERTs were executed, nothing of that ingest becomes durable, whatever
\* ingest_directory ingests and commits afterwards on the same connection:
\* the committed chunks of the failed source are those it had before.
FailedIngestLeavesNoTrace ==
    \A s \in FailedSources : RowsOfSource(table, s) = RowsOfSource(table0, s)

====
